---- MODULE Spec2Model ----
(***************************************************************************)
(* A model of the BashEnv shell interpreter (BashEnv.exec and the          *)
(* ShellParser it drives).  Command lines are strings; the tokenizer, the  *)
(* pipeline builder, the if-statement scanner and the executor are         *)
(* operators that follow the TypeScript source statement by statement.     *)
(***************************************************************************)
EXTENDS Integers, Sequences, FiniteSets, TLC

(***************************************************************************)
(* String primitives of the host language (JavaScript), 1-based here.      *)
(***************************************************************************)
Char(s, i) == IF i >= 1 /\ i <= Len(s) THEN SubSeq(s, i, i) ELSE ""

\* s.slice(from) with a 1-based from
Rest(s, i) == IF i > Len(s) THEN "" ELSE SubSeq(s, i, Len(s))

\* s.slice(from, to) with 1-based inclusive bounds, clamped to the string
Slice(s, i, j) == IF i > j \/ i > Len(s) THEN ""
                  ELSE SubSeq(s, i, IF j > Len(s) THEN Len(s) ELSE j)

StartsWith(s, p) == Len(s) >= Len(p) /\ SubSeq(s, 1, Len(p)) = p

\* str.includes(sub)
Contains(str, sub) ==
  \E i \in 1..(Len(str) - Len(sub) + 1) : SubSeq(str, i, i + Len(sub) - 1) = sub

\* the regular-expression class \s, restricted to the characters lines use
IsSpace(c) == c \in {" ", "\t", "\n"}

Digits == {"0", "1", "2", "3", "4", "5", "6", "7", "8", "9"}

Letters ==
  {"a", "b", "c", "d", "e", "f", "g", "h", "i", "j", "k", "l", "m",
   "n", "o", "p", "q", "r", "s", "t", "u", "v", "w", "x", "y", "z",
   "A", "B", "C", "D", "E", "F", "G", "H", "I", "J", "K", "L", "M",
   "N", "O", "P", "Q", "R", "S", "T", "U", "V", "W", "X", "Y", "Z"}

\* [A-Za-z_]
IsNameStart(c) == c \in Letters \/ c = "_"

\* [A-Za-z0-9_]
IsNameChar(c) == c \in Letters \/ c \in Digits \/ c = "_"

RECURSIVE TrimLeft(_)
TrimLeft(s) == IF s # "" /\ IsSpace(Char(s, 1)) THEN TrimLeft(Rest(s, 2)) ELSE s

RECURSIVE TrimRight(_)
TrimRight(s) ==
  IF s # "" /\ IsSpace(Char(s, Len(s)))
  THEN TrimRight(Slice(s, 1, Len(s) - 1)) ELSE s

\* String.prototype.trim
Trim(s) == TrimRight(TrimLeft(s))

\* s.indexOf(c, from): the first position >= from holding c, 0 when absent
RECURSIVE IndexOf(_, _, _)
IndexOf(s, c, from) ==
  IF from > Len(s) THEN 0
  ELSE IF Char(s, from) = c THEN from
  ELSE IndexOf(s, c, from + 1)

\* s.lastIndexOf(c): the last position holding c, 0 when absent
RECURSIVE LastIndexOf(_, _, _)
LastIndexOf(s, c, from) ==
  IF from < 1 THEN 0
  ELSE IF Char(s, from) = c THEN from
  ELSE LastIndexOf(s, c, from - 1)

\* the end of the longest run of name characters starting at position i
RECURSIVE NameEnd(_, _)
NameEnd(s, i) == IF i <= Len(s) /\ IsNameChar(Char(s, i)) THEN NameEnd(s, i + 1) ELSE i

\* /^[a-zA-Z_][a-zA-Z0-9_]*$/
IsIdentifier(s) == s # "" /\ IsNameStart(Char(s, 1)) /\ NameEnd(s, 1) = Len(s) + 1

\* String(n) for the small non-negative integers the model uses
DigitSeq == <<"0", "1", "2", "3", "4", "5", "6", "7", "8", "9">>

RECURSIVE IntToStr(_)
IntToStr(n) ==
  IF n < 10 THEN DigitSeq[n + 1] ELSE IntToStr(n \div 10) \o DigitSeq[(n % 10) + 1]

\* array.join(sep)
RECURSIVE Join(_, _)
Join(seq, sep) ==
  IF seq = <<>> THEN ""
  ELSE IF Len(seq) = 1 THEN seq[1]
  ELSE seq[1] \o sep \o Join(Tail(seq), sep)

(***************************************************************************)
(* The Environment: a JavaScript object used as a map name -> string.      *)
(***************************************************************************)
Has(env, name) == name \in DOMAIN env

\* this.env[name] ?? dflt
Lookup(env, name, dflt) == IF Has(env, name) THEN env[name] ELSE dflt

\* this.env[name] = value
Put(env, name, value) ==
  [n \in DOMAIN env \cup {name} |-> IF n = name THEN value ELSE env[n]]

\* delete this.env[name]
Delete(env, name) == [n \in DOMAIN env \ {name} |-> env[n]]

EmptyMap == [n \in {} |-> ""]

(***************************************************************************)
(* ShellParser.expandVariable: expansion inside double quotes, at          *)
(* tokenization time.  startIndex is the position of the dollar sign.      *)
(***************************************************************************)
DefaultSplit(content) ==
  \* content.match(/^([^:]+):-(.*)$/): the first colon must be followed by
  \* a dash and preceded by at least one character
  LET c == IndexOf(content, ":", 1)
  IN IF c > 1 /\ Char(content, c + 1) = "-"
     THEN <<Slice(content, 1, c - 1), Rest(content, c + 2)>>
     ELSE <<>>

expandVariable(str, startIndex, env) ==
  LET i == startIndex + 1
      c == Char(str, i)
  IN IF i > Len(str) THEN [value |-> "$", endIndex |-> i]
     ELSE IF c = "{" THEN
       LET closeIndex == IndexOf(str, "}", i)
           content == Slice(str, i + 1, closeIndex - 1)
           dm == DefaultSplit(content)
       IN IF closeIndex = 0 THEN [value |-> "${", endIndex |-> i + 1]
          ELSE IF dm # <<>>
          THEN [value |-> Lookup(env, dm[1], dm[2]), endIndex |-> closeIndex + 1]
          ELSE [value |-> Lookup(env, content, ""), endIndex |-> closeIndex + 1]
     ELSE IF c \in {"@", "#", "$", "?", "!", "*"}
     THEN [value |-> Lookup(env, c, ""), endIndex |-> i + 1]
     ELSE IF c \in Digits
     THEN [value |-> Lookup(env, c, ""), endIndex |-> i + 1]
     ELSE IF IsNameStart(c)
     THEN [value |-> Lookup(env, Slice(str, i, NameEnd(str, i) - 1), ""),
           endIndex |-> NameEnd(str, i)]
     ELSE [value |-> "$", endIndex |-> startIndex + 1]

(***************************************************************************)
(* ShellParser.tokenize.  ts is the loop state: position i, the word being *)
(* built, the open quote ("" for none), wasQuoted and the tokens so far.   *)
(***************************************************************************)
Token(type, value, quoted) == [type |-> type, value |-> value, quoted |-> quoted]

pushWord(ts) ==
  IF ts.current # ""
  THEN [ts EXCEPT !.tokens = Append(@, Token("word", ts.current, ts.wasQuoted)),
                  !.current = "", !.wasQuoted = FALSE]
  ELSE ts

\* pushWord(); tokens.push({type, value}); i += n
pushOp(ts, type, value, n) ==
  LET w == pushWord(ts)
  IN [w EXCEPT !.tokens = Append(@, Token(type, value, FALSE)), !.i = @ + n]

tokenizeStep(input, env, ts) ==
  LET i == ts.i
      char == Char(input, i)
      nextChar == Char(input, i + 1)
      q == ts.inQuote
  IN IF char = "\\" /\ i + 1 <= Len(input) THEN
       IF q = "'" THEN [ts EXCEPT !.current = @ \o char, !.i = i + 1]
       ELSE IF q = "\"" THEN
         \* the source also lists the back-quote, a character no line of the
         \* model contains
         IF nextChar \in {"\"", "\\", "$"}
         THEN [ts EXCEPT !.current = @ \o nextChar, !.i = i + 2]
         ELSE [ts EXCEPT !.current = @ \o char, !.i = i + 1]
       ELSE [ts EXCEPT !.current = @ \o nextChar, !.i = i + 2]
     ELSE IF char = "$" /\ q # "'" THEN
       IF q = "\"" THEN
         LET e == expandVariable(input, i, env)
         IN [ts EXCEPT !.current = @ \o e.value, !.i = e.endIndex]
       ELSE [ts EXCEPT !.current = @ \o char, !.i = i + 1]
     ELSE IF char \in {"\"", "'"} THEN
       IF q = char THEN [ts EXCEPT !.inQuote = "", !.i = i + 1]
       ELSE IF q = "" THEN [ts EXCEPT !.inQuote = char, !.wasQuoted = TRUE, !.i = i + 1]
       ELSE [ts EXCEPT !.current = @ \o char, !.i = i + 1]
     ELSE IF q # "" THEN [ts EXCEPT !.current = @ \o char, !.i = i + 1]
     ELSE IF char = "2" /\ Slice(input, i, i + 3) = "2>&1"
     THEN pushOp(ts, "redirect-stderr-to-stdout", "2>&1", 4)
     ELSE IF char = "2" /\ nextChar = ">" /\ Char(input, i + 2) = ">"
     THEN pushOp(ts, "redirect-stderr-append", "2>>", 3)
     ELSE IF char = "2" /\ nextChar = ">"
     THEN pushOp(ts, "redirect-stderr", "2>", 2)
     ELSE IF char = ">" /\ nextChar = ">"
     THEN pushOp(ts, "redirect-stdout-append", ">>", 2)
     ELSE IF char = ">" THEN pushOp(ts, "redirect-stdout", ">", 1)
     ELSE IF char = "<" THEN pushOp(ts, "redirect-stdin", "<", 1)
     ELSE IF char = "&" /\ nextChar = "&" THEN pushOp(ts, "and", "&&", 2)
     ELSE IF char = "|" /\ nextChar = "|" THEN pushOp(ts, "or", "||", 2)
     ELSE IF char = "|" THEN pushOp(ts, "pipe", "|", 1)
     ELSE IF char = ";" THEN pushOp(ts, "semicolon", ";", 1)
     ELSE IF char \in {" ", "\t"} THEN [pushWord(ts) EXCEPT !.i = i + 1]
     ELSE [ts EXCEPT !.current = @ \o char, !.i = i + 1]

RECURSIVE tokenizeLoop(_, _, _)
tokenizeLoop(input, env, ts) ==
  IF ts.i <= Len(input) THEN tokenizeLoop(input, env, tokenizeStep(input, env, ts))
  ELSE pushWord(ts).tokens

tokenize(input, env) ==
  tokenizeLoop(input, env,
    [i |-> 1, current |-> "", inQuote |-> "", wasQuoted |-> FALSE, tokens |-> <<>>])

(***************************************************************************)
(* ShellParser.tokenToText and collectCompoundCommand.                     *)
(***************************************************************************)
tokenToText(token) ==
  CASE token.type = "pipe" -> "|"
    [] token.type = "and" -> "&&"
    [] token.type = "or" -> "||"
    [] token.type = "semicolon" -> ";"
    [] token.type = "redirect-stdout" -> ">"
    [] token.type = "redirect-stdout-append" -> ">>"
    [] token.type = "redirect-stderr" -> "2>"
    [] token.type = "redirect-stderr-append" -> "2>>"
    [] token.type = "redirect-stderr-to-stdout" -> "2>&1"
    [] token.type = "redirect-stdin" -> "<"
    [] OTHER -> token.value

\* the separator appended after tokens[i] when a token follows it
CompoundGap(tokens, i) ==
  IF i + 1 <= Len(tokens) THEN
    IF tokens[i].type = "word" /\ tokens[i + 1].type = "word" THEN " "
    ELSE IF tokens[i].type # "semicolon" /\ tokens[i + 1].type # "semicolon" THEN " "
    ELSE ""
  ELSE ""

RECURSIVE collectLoop(_, _, _, _, _, _)
collectLoop(tokens, i, depth, text, startKeyword, endKeyword) ==
  IF i > Len(tokens) THEN [text |-> text, endIndex |-> i - 1]
  ELSE
    LET token == tokens[i]
        tokenText == IF token.type = "word" THEN token.value ELSE tokenToText(token)
        isStart == token.type = "word" /\ token.value = startKeyword
        isEnd == ~isStart /\ token.type = "word" /\ token.value = endKeyword
        depth2 == IF isStart THEN depth + 1 ELSE IF isEnd THEN depth - 1 ELSE depth
    IN IF isEnd /\ depth2 = 0
       THEN [text |-> text \o tokenText, endIndex |-> i]
       ELSE collectLoop(tokens, i + 1, depth2,
                        text \o tokenText \o CompoundGap(tokens, i),
                        startKeyword, endKeyword)

\* collectCompoundCommand that ends where it started, whatever it collected
collectCompoundCommand_endsAtStart(tokens, startIndex, startKeyword, endKeyword) ==
  [text |-> collectLoop(tokens, startIndex, 0, "", startKeyword, endKeyword).text,
   endIndex |-> startIndex]

collectCompoundCommand(tokens, startIndex, startKeyword, endKeyword) ==
  collectLoop(tokens, startIndex, 0, "", startKeyword, endKeyword)

(***************************************************************************)
(* ShellParser.buildPipelines.  bs is the loop state.  A command is        *)
(* [command, args, quotedArgs, redirections, operator].                    *)
(***************************************************************************)
Redirection(type, target, append) == [type |-> type, target |-> target, append |-> append]

\* the target of the redirection that has none (2>&1)
NullTarget == ""

pushCommand(bs) ==
  IF bs.currentArgs # <<>>
  THEN [bs EXCEPT
          !.commands = Append(@,
            [command |-> bs.currentArgs[1].value,
             args |-> [k \in 1..(Len(bs.currentArgs) - 1) |-> bs.currentArgs[k + 1].value],
             quotedArgs |-> [k \in 1..(Len(bs.currentArgs) - 1) |-> bs.currentArgs[k + 1].quoted],
             redirections |-> bs.currentRedirections,
             operator |-> bs.lastOperator]),
          !.currentArgs = <<>>,
          !.currentRedirections = <<>>]
  ELSE bs

\* a redirection token that takes the next word as its target
redirectWithTarget(tokens, bs, type, append) ==
  IF bs.i + 1 <= Len(tokens) /\ tokens[bs.i + 1].type = "word"
  THEN [bs EXCEPT !.currentRedirections =
                     Append(@, Redirection(type, tokens[bs.i + 1].value, append)),
                  !.i = @ + 2]
  ELSE [bs EXCEPT !.i = @ + 1]

buildStep(tokens, bs) ==
  LET token == tokens[bs.i]
      t == token.type
  IN IF t = "word" THEN
       IF token.value = "if" /\ bs.currentArgs = <<>> THEN
         LET compoundCmd == collectCompoundCommand(tokens, bs.i, "if", "fi")
         IN [bs EXCEPT !.currentArgs = Append(@, [value |-> compoundCmd.text, quoted |-> TRUE]),
                       !.i = compoundCmd.endIndex]
       ELSE [bs EXCEPT !.currentArgs = Append(@, [value |-> token.value, quoted |-> token.quoted]),
                       !.i = @ + 1]
     ELSE IF t = "pipe" THEN [pushCommand(bs) EXCEPT !.lastOperator = "", !.i = @ + 1]
     ELSE IF t = "and" THEN [pushCommand(bs) EXCEPT !.lastOperator = "&&", !.i = @ + 1]
     ELSE IF t = "or" THEN [pushCommand(bs) EXCEPT !.lastOperator = "||", !.i = @ + 1]
     ELSE IF t = "semicolon" THEN [pushCommand(bs) EXCEPT !.lastOperator = ";", !.i = @ + 1]
     ELSE IF t = "redirect-stdout" THEN redirectWithTarget(tokens, bs, "stdout", FALSE)
     ELSE IF t = "redirect-stdout-append" THEN redirectWithTarget(tokens, bs, "stdout", TRUE)
     ELSE IF t = "redirect-stderr" THEN redirectWithTarget(tokens, bs, "stderr", FALSE)
     ELSE IF t = "redirect-stderr-append" THEN redirectWithTarget(tokens, bs, "stderr", TRUE)
     ELSE IF t = "redirect-stderr-to-stdout"
     THEN [bs EXCEPT !.currentRedirections =
                        Append(@, Redirection("stderr-to-stdout", NullTarget, FALSE)),
                     !.i = @ + 1]
     ELSE IF t = "redirect-stdin" THEN redirectWithTarget(tokens, bs, "stdin", FALSE)
     ELSE [bs EXCEPT !.i = @ + 1]

RECURSIVE buildLoop(_, _)
buildLoop(tokens, bs) ==
  IF bs.i <= Len(tokens) THEN buildLoop(tokens, buildStep(tokens, bs))
  ELSE LET done == pushCommand(bs)
       IN IF done.commands # <<>> THEN <<done.commands>> ELSE <<>>

\* the list of pipelines; a pipeline is its sequence of chained commands
buildPipelines(tokens) ==
  buildLoop(tokens,
    [i |-> 1, commands |-> <<>>, currentArgs |-> <<>>,
     currentRedirections |-> <<>>, lastOperator |-> ""])

\* ShellParser.parse
parse(commandLine, env) == buildPipelines(tokenize(commandLine, env))

(***************************************************************************)
(* BashEnv.expandVariables: expansion of unquoted words at execution time. *)
(***************************************************************************)
RECURSIVE expandLoop(_, _, _, _)
expandLoop(str, i, result, env) ==
  IF i > Len(str) THEN result
  ELSE IF Char(str, i) = "$" /\ i + 1 <= Len(str) THEN
    LET nextChar == Char(str, i + 1)
        closeIndex == IF nextChar = "{" THEN IndexOf(str, "}", i + 2) ELSE 0
        content == Slice(str, i + 2, closeIndex - 1)
        dm == DefaultSplit(content)
    IN IF closeIndex # 0 THEN
         expandLoop(str, closeIndex + 1,
                    result \o (IF dm # <<>> THEN Lookup(env, dm[1], dm[2])
                               ELSE Lookup(env, content, "")),
                    env)
       ELSE IF nextChar \in {"@", "#", "$", "?", "!", "*"} \/ nextChar \in Digits
       THEN expandLoop(str, i + 2, result \o Lookup(env, nextChar, ""), env)
       ELSE IF IsNameStart(nextChar)
       THEN expandLoop(str, NameEnd(str, i + 1),
                       result \o Lookup(env, Slice(str, i + 1, NameEnd(str, i + 1) - 1), ""),
                       env)
       ELSE expandLoop(str, i + 1, result \o "$", env)
  ELSE expandLoop(str, i + 1, result \o Char(str, i), env)

expandVariables(str, env) == expandLoop(str, 1, "", env)

(***************************************************************************)
(* BashEnv.parseFunctionDefinition.  Two regular expressions anchored at   *)
(* both ends: the word "function", white space, a name, optional white     *)
(* space and a braced body; or a name, an empty pair of parentheses with   *)
(* optional white space around them, and a braced body.  The result is     *)
(* <<>> for null, else a one-element sequence.                             *)
(***************************************************************************)
RECURSIVE SkipSpaces(_, _)
SkipSpaces(s, i) == IF i <= Len(s) /\ IsSpace(Char(s, i)) THEN SkipSpaces(s, i + 1) ELSE i

\* the braced body whose opening brace is at position open: the greedy group
\* ends at the last closing brace, which only white space may follow
BracedBody(input, open) ==
  LET close == LastIndexOf(input, "}", Len(input))
  IN IF Char(input, open) = "{" /\ close > open /\ Trim(Rest(input, close + 1)) = ""
     THEN <<Trim(Slice(input, open + 1, close - 1))>>
     ELSE <<>>

parseFunctionDefinition(input) ==
  LET kwName == SkipSpaces(input, 9)
      kwNameEnd == NameEnd(input, kwName)
      kwBody == BracedBody(input, SkipSpaces(input, kwNameEnd))
      funcKeywordMatch ==
        /\ StartsWith(input, "function")
        /\ IsSpace(Char(input, 9))
        /\ IsNameStart(Char(input, kwName))
        /\ kwBody # <<>>
      nameEnd == NameEnd(input, 1)
      lparen == SkipSpaces(input, nameEnd)
      rparen == SkipSpaces(input, lparen + 1)
      pBody == BracedBody(input, SkipSpaces(input, rparen + 1))
      parenMatch ==
        /\ IsNameStart(Char(input, 1))
        /\ Char(input, lparen) = "("
        /\ Char(input, rparen) = ")"
        /\ pBody # <<>>
  IN IF funcKeywordMatch
     THEN <<[name |-> Slice(input, kwName, kwNameEnd - 1), body |-> kwBody[1]]>>
     ELSE IF parenMatch
     THEN <<[name |-> Slice(input, 1, nameEnd - 1), body |-> pBody[1]]>>
     ELSE <<>>

(***************************************************************************)
(* BashEnv.parseIfStatement.  ps is the scanner state.  A branch is        *)
(* [condition, isNull, body]; isNull stands for the null condition of the  *)
(* else branch.                                                            *)
(***************************************************************************)
Branch(condition, isNull, body) ==
  [condition |-> condition, isNull |-> isNull, body |-> body]

\* kw at position pos, followed by white space, a semicolon or the end
KeywordEnd(rest, pos, kw) ==
  /\ Slice(rest, pos, pos + Len(kw) - 1) = kw
  /\ LET after == Char(rest, pos + Len(kw))
     IN IsSpace(after) \/ after = ";" \/ pos + Len(kw) > Len(rest)

\* kw at position pos, followed by white space
KeywordSpace(rest, pos, kw) ==
  /\ Slice(rest, pos, pos + Len(kw) - 1) = kw
  /\ IsSpace(Char(rest, pos + Len(kw)))

\* while (pos < rest.length && (rest[pos] === ';' || rest[pos] === ' ')) pos++
RECURSIVE SkipSemiBlank(_, _)
SkipSemiBlank(s, i) ==
  IF i <= Len(s) /\ Char(s, i) \in {";", " "} THEN SkipSemiBlank(s, i + 1) ELSE i

\* while (pos < rest.length && rest[pos] === ' ') pos++
RECURSIVE SkipBlank(_, _)
SkipBlank(s, i) == IF i <= Len(s) /\ Char(s, i) = " " THEN SkipBlank(s, i + 1) ELSE i

\* text appended to the condition or to the body, according to the state
AddText(ps, text) ==
  IF ps.state = "condition"
  THEN [ps EXCEPT !.currentCondition = @ \o text]
  ELSE [ps EXCEPT !.currentBody = @ \o text]

\* the branch saved by elif and else, when there is one
SaveBranch(ps) ==
  IF Trim(ps.currentCondition) # "" \/ Trim(ps.currentBody) # ""
  THEN [ps EXCEPT !.branches =
          Append(@, Branch(Trim(ps.currentCondition), FALSE, Trim(ps.currentBody)))]
  ELSE ps

parseIfStep(rest, ps) ==
  LET pos == ps.pos
  IN IF KeywordSpace(rest, pos, "if")
     THEN [AddText(ps, "if ") EXCEPT !.pos = pos + 3, !.depth = @ + 1]
     ELSE IF KeywordEnd(rest, pos, "fi") THEN
       IF ps.depth - 1 = 0 THEN
         IF ps.state = "body"
         THEN [ps EXCEPT !.depth = 0, !.stop = TRUE,
                         !.branches = Append(@,
                            Branch(Trim(ps.currentCondition),
                                   Trim(ps.currentCondition) = "",
                                   Trim(ps.currentBody)))]
         ELSE [ps EXCEPT !.depth = 0, !.stop = TRUE]
       ELSE [AddText(ps, "fi") EXCEPT !.pos = pos + 2, !.depth = @ - 1]
     ELSE IF ps.depth = 1 /\ KeywordEnd(rest, pos, "then")
     THEN [ps EXCEPT !.state = "body", !.pos = SkipSemiBlank(rest, pos + 4)]
     ELSE IF ps.depth = 1 /\ KeywordSpace(rest, pos, "elif")
     THEN [SaveBranch(ps) EXCEPT !.currentCondition = "", !.currentBody = "",
                                 !.state = "condition", !.pos = pos + 5]
     ELSE IF ps.depth = 1 /\ KeywordEnd(rest, pos, "else")
     THEN [SaveBranch(ps) EXCEPT !.currentCondition = "", !.currentBody = "",
                                 !.state = "body", !.pos = SkipSemiBlank(rest, pos + 4)]
     ELSE IF ps.state = "condition" /\ Char(rest, pos) = ";"
     THEN [ps EXCEPT !.pos = SkipBlank(rest, pos + 1)]
     ELSE [AddText(ps, Char(rest, pos)) EXCEPT !.pos = pos + 1]

RECURSIVE parseIfLoop(_, _)
parseIfLoop(rest, ps) ==
  IF ps.pos <= Len(rest) /\ ps.depth > 0 /\ ~ps.stop
  THEN parseIfLoop(rest, parseIfStep(rest, ps))
  ELSE ps

SyntaxErrorToken == "bash: syntax error near unexpected token\n"
SyntaxErrorEof == "bash: syntax error: unexpected end of file\n"

\* the else branch a saved empty condition stands for
MarkElse(branches) ==
  IF branches # <<>> /\ branches[Len(branches)].condition = ""
  THEN [branches EXCEPT ![Len(branches)].isNull = TRUE]
  ELSE branches

parseIfStatement(input) ==
  LET trimmed == Trim(input)
      rest == Trim(Rest(trimmed, 3))
      ps == parseIfLoop(rest,
              [pos |-> 1, depth |-> 1, state |-> "condition", stop |-> FALSE,
               currentCondition |-> "", currentBody |-> "", branches |-> <<>>])
  IN IF ~StartsWith(trimmed, "if ") /\ ~StartsWith(trimmed, "if;")
     THEN [branches |-> <<>>, error |-> SyntaxErrorToken]
     ELSE IF ps.depth # 0 THEN [branches |-> <<>>, error |-> SyntaxErrorEof]
     ELSE IF ps.branches = <<>> THEN [branches |-> <<>>, error |-> SyntaxErrorToken]
     ELSE [branches |-> MarkElse(ps.branches), error |-> ""]

(***************************************************************************)
(* ExecResult, and the file system behind the IFileSystem interface.       *)
(***************************************************************************)
Result(out, err, code) == [stdout |-> out, stderr |-> err, exitCode |-> code]

Success == Result("", "", 0)

\* IFileSystem.resolvePath(cwd, path), for paths without dot segments
fsResolvePath(cwd, path) ==
  IF StartsWith(path, "/") THEN path
  ELSE IF cwd = "/" THEN "/" \o path
  ELSE cwd \o "/" \o path

\* IFileSystem.writeFile
fsWriteFile(fs, path, content) == [fs EXCEPT !.files = Put(@, path, content)]

\* IFileSystem.appendFile
fsAppendFile(fs, path, content) ==
  [fs EXCEPT !.files = Put(@, path, Lookup(@, path, "") \o content)]

\* IFileSystem.writeFile and appendFile reject when path is a directory
fsWriteThrows(fs, path) == path \in fs.dirs

EISDIR(path) == "EISDIR: illegal operation on a directory, write '" \o path \o "'"

\* IFileSystem.stat(path).isDirectory; stat throws when nothing is at path
fsExists(fs, path) == path \in fs.dirs \/ Has(fs.files, path)
fsIsDirectory(fs, path) == path \in fs.dirs

(***************************************************************************)
(* The registry commands the model runs: echo, cat, pwd, true and false.   *)
(* ctx is the CommandContext [fs, cwd, env, stdin].                        *)
(***************************************************************************)
RegistryNames == {"echo", "cat", "pwd", "true", "false"}

RECURSIVE catFiles(_, _, _, _)
catFiles(args, k, ctx, acc) ==
  IF k > Len(args) THEN acc
  ELSE
    LET path == fsResolvePath(ctx.cwd, args[k])
    IN IF Has(ctx.fs.files, path)
       THEN catFiles(args, k + 1, ctx, [acc EXCEPT !.stdout = @ \o ctx.fs.files[path]])
       ELSE catFiles(args, k + 1, ctx,
              [acc EXCEPT !.stderr = @ \o "cat: " \o args[k] \o ": No such file or directory\n",
                          !.exitCode = 1])

registryExecute(name, args, ctx) ==
  CASE name = "echo" -> Result(Join(args, " ") \o "\n", "", 0)
    [] name = "cat" -> IF args = <<>> THEN Result(ctx.stdin, "", 0)
                       ELSE catFiles(args, 1, ctx, Success)
    [] name = "pwd" -> Result(ctx.cwd \o "\n", "", 0)
    [] name = "true" -> Success
    [] name = "false" -> Result("", "", 1)

(***************************************************************************)
(* cp and mv (src/commands/cp/cp.ts, src/commands/mv/mv.ts).  A command    *)
(* returns the file system it leaves with its result.  IFileSystem.cp and  *)
(* IFileSystem.mv raise an error, here a message, or change the file       *)
(* system.                                                                 *)
(***************************************************************************)
\* path is src or lies below it
Under(path, src) == path = src \/ StartsWith(path, src \o "/")

\* the path that a path under src takes when src becomes dst
Rebase(path, src, dst) == dst \o Rest(path, Len(src) + 1)

\* the files and directories under src, at dst
Rebased(fs, src, dst) ==
  [dirs |-> {Rebase(d, src, dst) : d \in {e \in fs.dirs : Under(e, src)}},
   files |-> [f \in {Rebase(g, src, dst) : g \in {h \in DOMAIN fs.files : Under(h, src)}} |->
                fs.files[CHOOSE g \in DOMAIN fs.files : Under(g, src) /\ Rebase(g, src, dst) = f]]]

\* the file system with the entries of extra added, files of extra replacing
Merged(fs, extra) ==
  [dirs |-> fs.dirs \cup extra.dirs,
   files |-> [f \in DOMAIN fs.files \cup DOMAIN extra.files |->
                IF f \in DOMAIN extra.files THEN extra.files[f] ELSE fs.files[f]]]

\* the file system without the entries under src
Without(fs, src) ==
  [dirs |-> {d \in fs.dirs : ~Under(d, src)},
   files |-> [f \in {g \in DOMAIN fs.files : ~Under(g, src)} |-> fs.files[f]]]

\* the error IFileSystem.cp and IFileSystem.mv raise, <<>> when none
fsTransferError(fs, src, dst, call) ==
  IF ~fsExists(fs, src)
  THEN <<"ENOENT: no such file or directory, " \o call \o " '" \o src \o "'">>
  ELSE IF fsIsDirectory(fs, src) /\ Has(fs.files, dst)
  THEN <<"ENOTDIR: not a directory, " \o call \o " '" \o dst \o "'">>
  ELSE IF ~fsIsDirectory(fs, src) /\ fsIsDirectory(fs, dst)
  THEN <<EISDIR(dst)>>
  ELSE <<>>

\* IFileSystem.cp(src, dst, {recursive})
fsCp(fs, src, dst, recursive) ==
  LET error == IF fsExists(fs, src) /\ fsIsDirectory(fs, src) /\ ~recursive
               THEN <<"EISDIR: is a directory, cp '" \o src \o "'">>
               ELSE fsTransferError(fs, src, dst, "cp")
  IN IF error # <<>> THEN [fs |-> fs, thrown |-> error]
     ELSE [fs |-> Merged(fs, Rebased(fs, src, dst)), thrown |-> <<>>]

\* IFileSystem.mv(src, dst)
fsMv(fs, src, dst) ==
  LET error == fsTransferError(fs, src, dst, "mv")
  IN IF error # <<>> THEN [fs |-> fs, thrown |-> error]
     ELSE [fs |-> Merged(Without(fs, src), Rebased(fs, src, dst)), thrown |-> <<>>]

\* src.split("/").pop() || src
Basename(src) ==
  LET last == Rest(src, LastIndexOf(src, "/", Len(src)) + 1)
  IN IF last = "" THEN src ELSE last

\* the path of src in the directory destPath
TargetIn(destPath, src) ==
  IF destPath = "/" THEN "/" \o Basename(src) ELSE destPath \o "/" \o Basename(src)

\* the message for an error caught while src was copied or moved
TransferMessage(name, verb, src, message) ==
  IF Contains(message, "ENOENT") \/ Contains(message, "no such file")
  THEN name \o ": cannot stat '" \o src \o "': No such file or directory\n"
  ELSE name \o ": cannot " \o verb \o " '" \o src \o "': " \o message \o "\n"

\* the options and the paths among the arguments of cp
cpRecursive(args) ==
  \E k \in 1..Len(args) : args[k] \in {"-r", "-R", "--recursive"}

cpPaths(args) == SelectSeq(args, LAMBDA arg : ~StartsWith(arg, "-"))

\* the loop of cp over its sources; acc is [fs, stderr, exitCode]
RECURSIVE cpSources(_, _, _, _, _, _, _)
cpSources(sources, k, cwd0, destPath, destIsDir, recursive, acc) ==
  IF k > Len(sources) THEN acc
  ELSE
    LET src == sources[k]
        srcPath == fsResolvePath(cwd0, src)
        targetPath == IF destIsDir THEN TargetIn(destPath, src) ELSE destPath
        copied == fsCp(acc.fs, srcPath, targetPath, recursive)
        next ==
          IF ~fsExists(acc.fs, srcPath)
          THEN [acc EXCEPT !.exitCode = 1,
                  !.stderr = @ \o TransferMessage("cp", "copy", src,
                                    "ENOENT: no such file or directory, stat '" \o srcPath \o "'")]
          ELSE IF fsIsDirectory(acc.fs, srcPath) /\ ~recursive
          THEN [acc EXCEPT !.exitCode = 1,
                  !.stderr = @ \o "cp: -r not specified; omitting directory '" \o src \o "'\n"]
          ELSE IF copied.thrown # <<>>
          THEN [acc EXCEPT !.exitCode = 1,
                  !.stderr = @ \o TransferMessage("cp", "copy", src, copied.thrown[1])]
          ELSE [acc EXCEPT !.fs = copied.fs]
    IN cpSources(sources, k + 1, cwd0, destPath, destIsDir, recursive, next)

cpCommand_skipsTargetCheck(args, ctx) ==
  LET paths == cpPaths(args)
      dest == paths[Len(paths)]
      sources == SubSeq(paths, 1, Len(paths) - 1)
      destPath == fsResolvePath(ctx.cwd, dest)
      destIsDir == fsExists(ctx.fs, destPath) /\ fsIsDirectory(ctx.fs, destPath)
      done == cpSources(sources, 1, ctx.cwd, destPath, destIsDir, cpRecursive(args),
                        [fs |-> ctx.fs, stderr |-> "", exitCode |-> 0])
  IN IF Len(paths) < 2
     THEN [fs |-> ctx.fs, res |-> Result("", "cp: missing destination file operand\n", 1)]
     ELSE [fs |-> done.fs, res |-> Result("", done.stderr, done.exitCode)]

\* cpCommand.execute(args, ctx), for arguments without unknown options
cpCommand(args, ctx) ==
  LET paths == cpPaths(args)
      dest == paths[Len(paths)]
      sources == SubSeq(paths, 1, Len(paths) - 1)
      destPath == fsResolvePath(ctx.cwd, dest)
      destIsDir == fsExists(ctx.fs, destPath) /\ fsIsDirectory(ctx.fs, destPath)
      done == cpSources(sources, 1, ctx.cwd, destPath, destIsDir, cpRecursive(args),
                        [fs |-> ctx.fs, stderr |-> "", exitCode |-> 0])
  IN IF Len(paths) < 2
     THEN [fs |-> ctx.fs, res |-> Result("", "cp: missing destination file operand\n", 1)]
     ELSE IF Len(sources) > 1 /\ ~destIsDir
     THEN [fs |-> ctx.fs,
           res |-> Result("", "cp: target '" \o dest \o "' is not a directory\n", 1)]
     ELSE [fs |-> done.fs, res |-> Result("", done.stderr, done.exitCode)]

\* the loop of mv over its sources
RECURSIVE mvSources(_, _, _, _, _, _)
mvSources(sources, k, cwd0, destPath, destIsDir, acc) ==
  IF k > Len(sources) THEN acc
  ELSE
    LET src == sources[k]
        srcPath == fsResolvePath(cwd0, src)
        targetPath == IF destIsDir THEN TargetIn(destPath, src) ELSE destPath
        moved == fsMv(acc.fs, srcPath, targetPath)
        next ==
          IF moved.thrown # <<>>
          THEN [acc EXCEPT !.exitCode = 1,
                  !.stderr = @ \o TransferMessage("mv", "move", src, moved.thrown[1])]
          ELSE [acc EXCEPT !.fs = moved.fs]
    IN mvSources(sources, k + 1, cwd0, destPath, destIsDir, next)

\* mvCommand.execute(args, ctx), for arguments without options
mvCommand(args, ctx) ==
  LET paths == args
      dest == paths[Len(paths)]
      sources == SubSeq(paths, 1, Len(paths) - 1)
      destPath == fsResolvePath(ctx.cwd, dest)
      destIsDir == fsExists(ctx.fs, destPath) /\ fsIsDirectory(ctx.fs, destPath)
      done == mvSources(sources, 1, ctx.cwd, destPath, destIsDir,
                        [fs |-> ctx.fs, stderr |-> "", exitCode |-> 0])
  IN IF Len(paths) < 2
     THEN [fs |-> ctx.fs, res |-> Result("", "mv: missing destination file operand\n", 1)]
     ELSE IF Len(sources) > 1 /\ ~destIsDir
     THEN [fs |-> ctx.fs,
           res |-> Result("", "mv: target '" \o dest \o "' is not a directory\n", 1)]
     ELSE [fs |-> done.fs, res |-> Result("", done.stderr, done.exitCode)]

\* GlobExpander.expandArgs, for arguments without glob characters
expandArgs(args, quotedArgs) == args

(***************************************************************************)
(* The state-mutating builtins.  st is the interpreter state: env,         *)
(* functions, cwd, previousDir, localScopes, fs, and the log of the        *)
(* commands executed so far (trace).                                       *)
(***************************************************************************)
Outcome(st, res) == [st |-> st, res |-> res]

handleCd_keepsPreviousDir(st, args) ==
  LET target == IF args # <<>> /\ args[1] # "" THEN args[1]
                ELSE IF Lookup(st.env, "HOME", "") # "" THEN st.env["HOME"]
                ELSE "/"
      newDir == IF target = "-" THEN st.previousDir
                ELSE IF target = "~"
                THEN (IF Lookup(st.env, "HOME", "") # "" THEN st.env["HOME"] ELSE "/")
                ELSE fsResolvePath(st.cwd, target)
  IN IF ~fsExists(st.fs, newDir)
     THEN Outcome(st, Result("", "cd: " \o target \o ": No such file or directory\n", 1))
     ELSE IF ~fsIsDirectory(st.fs, newDir)
     THEN Outcome(st, Result("", "cd: " \o target \o ": Not a directory\n", 1))
     ELSE Outcome([st EXCEPT !.cwd = newDir], Success)

handleCd(st, args) ==
  LET target == IF args # <<>> /\ args[1] # "" THEN args[1]
                ELSE IF Lookup(st.env, "HOME", "") # "" THEN st.env["HOME"]
                ELSE "/"
      newDir == IF target = "-" THEN st.previousDir
                ELSE IF target = "~"
                THEN (IF Lookup(st.env, "HOME", "") # "" THEN st.env["HOME"] ELSE "/")
                ELSE fsResolvePath(st.cwd, target)
  IN IF ~fsExists(st.fs, newDir)
     THEN Outcome(st, Result("", "cd: " \o target \o ": No such file or directory\n", 1))
     ELSE IF ~fsIsDirectory(st.fs, newDir)
     THEN Outcome(st, Result("", "cd: " \o target \o ": Not a directory\n", 1))
     ELSE Outcome([st EXCEPT !.previousDir = st.cwd, !.cwd = newDir], Success)

RECURSIVE exportLoop(_, _, _)
exportLoop(args, k, env) ==
  IF k > Len(args) THEN env
  ELSE LET eqIndex == IndexOf(args[k], "=", 1)
       IN IF eqIndex > 1
          THEN exportLoop(args, k + 1,
                 Put(env, Slice(args[k], 1, eqIndex - 1), Rest(args[k], eqIndex + 1)))
          ELSE exportLoop(args, k + 1, env)

handleExport(st, args) == Outcome([st EXCEPT !.env = exportLoop(args, 1, @)], Success)

RECURSIVE unsetLoop(_, _, _)
unsetLoop(args, k, env) ==
  IF k > Len(args) THEN env ELSE unsetLoop(args, k + 1, Delete(env, args[k]))

handleUnset(st, args) == Outcome([st EXCEPT !.env = unsetLoop(args, 1, @)], Success)

\* a value saved in a scope frame: <<>> for undefined, else <<value>>
Saved(env, name) == IF Has(env, name) THEN <<env[name]>> ELSE <<>>

\* localLoop that saves the current value at every declaration, also when
\* the frame already holds one for the name
RECURSIVE localLoop_savesEveryTime(_, _, _, _)
localLoop_savesEveryTime(args, k, env, scope) ==
  IF k > Len(args) THEN [env |-> env, scope |-> scope]
  ELSE
    LET arg == args[k]
        eqIndex == IndexOf(arg, "=", 1)
        hasValue == eqIndex > 1
        varName == IF hasValue THEN Slice(arg, 1, eqIndex - 1) ELSE arg
        value == Rest(arg, eqIndex + 1)
        scope2 == [n \in DOMAIN scope \cup {varName} |->
                     IF n = varName THEN Saved(env, varName) ELSE scope[n]]
        env2 == IF hasValue THEN Put(env, varName, value)
                ELSE IF ~Has(env, varName) THEN Put(env, varName, "")
                ELSE env
    IN localLoop_savesEveryTime(args, k + 1, env2, scope2)

RECURSIVE localLoop(_, _, _, _)
localLoop(args, k, env, scope) ==
  IF k > Len(args) THEN [env |-> env, scope |-> scope]
  ELSE
    LET arg == args[k]
        eqIndex == IndexOf(arg, "=", 1)
        hasValue == eqIndex > 1
        varName == IF hasValue THEN Slice(arg, 1, eqIndex - 1) ELSE arg
        value == Rest(arg, eqIndex + 1)
        scope2 == IF ~Has(scope, varName)
                  THEN [n \in DOMAIN scope \cup {varName} |->
                          IF n = varName THEN Saved(env, varName) ELSE scope[n]]
                  ELSE scope
        env2 == IF hasValue THEN Put(env, varName, value)
                ELSE IF ~Has(env, varName) THEN Put(env, varName, "")
                ELSE env
    IN localLoop(args, k + 1, env2, scope2)

LocalOutsideFunction == "bash: local: can only be used in a function\n"

\* handleLocal without the test of the frame stack: with no frame the
\* variables are set in the environment
handleLocal_withoutFrameTest(st, args) ==
  IF Len(st.localScopes) = 0
  THEN Outcome([st EXCEPT !.env = localLoop(args, 1, st.env, EmptyMap).env], Success)
  ELSE LET top == Len(st.localScopes)
           r == localLoop(args, 1, st.env, st.localScopes[top])
       IN Outcome([st EXCEPT !.env = r.env, !.localScopes[top] = r.scope], Success)

handleLocal(st, args) ==
  IF Len(st.localScopes) = 0
  THEN Outcome(st, Result("", LocalOutsideFunction, 1))
  ELSE LET top == Len(st.localScopes)
           r == localLoop(args, 1, st.env, st.localScopes[top])
       IN Outcome([st EXCEPT !.env = r.env, !.localScopes[top] = r.scope], Success)

\* parseInt(s, 10): <<>> for NaN, else <<n>>
RECURSIVE DigitsValue(_, _, _)
DigitsValue(s, i, acc) ==
  IF i <= Len(s) /\ Char(s, i) \in Digits
  THEN DigitsValue(s, i + 1,
         10 * acc + (CHOOSE d \in 0..9 : DigitSeq[d + 1] = Char(s, i)))
  ELSE acc

parseInt(s) ==
  LET t == TrimLeft(s)
      neg == Char(t, 1) = "-"
      body == IF Char(t, 1) \in {"-", "+"} THEN Rest(t, 2) ELSE t
  IN IF Char(body, 1) \in Digits
     THEN <<(IF neg THEN -1 ELSE 1) * DigitsValue(body, 1, 0)>>
     ELSE <<>>

handleExit(st, args) ==
  LET code == IF args # <<>> /\ args[1] # "" THEN parseInt(args[1]) ELSE <<0>>
  IN Outcome(st, Result("", "", IF code = <<>> THEN 1 ELSE code[1]))

(***************************************************************************)
(* BashEnv.applyRedirections.                                              *)
(***************************************************************************)
\* redirectLoop that writes where it should append
RECURSIVE redirectLoop_neverAppends(_, _, _, _)
redirectLoop_neverAppends(st, res, redirections, k) ==
  IF k > Len(redirections) THEN Outcome(st, res)
  ELSE
    LET redir == redirections[k]
        filePath == fsResolvePath(st.cwd, redir.target)
    IN IF redir.type = "stdout" /\ redir.target # ""
       THEN redirectLoop_neverAppends([st EXCEPT !.fs = fsWriteFile(@, filePath, res.stdout)],
                                      [res EXCEPT !.stdout = ""], redirections, k + 1)
       ELSE IF redir.type = "stderr-to-stdout"
       THEN redirectLoop_neverAppends(st, [res EXCEPT !.stdout = @ \o res.stderr,
                                                      !.stderr = ""],
                                      redirections, k + 1)
       ELSE redirectLoop_neverAppends(st, res, redirections, k + 1)

RECURSIVE redirectLoop(_, _, _, _)
redirectLoop(st, res, redirections, k) ==
  IF k > Len(redirections) THEN Outcome(st, res)
  ELSE
    LET redir == redirections[k]
        filePath == fsResolvePath(st.cwd, redir.target)
        write(text) == IF redir.append THEN fsAppendFile(st.fs, filePath, text)
                       ELSE fsWriteFile(st.fs, filePath, text)
        writes == \/ redir.type = "stdout" /\ redir.target # ""
                  \/ redir.type = "stderr" /\ redir.target \notin {"", "/dev/null"}
    IN IF writes /\ fsWriteThrows(st.fs, filePath)
       THEN Outcome([st EXCEPT !.thrown = <<EISDIR(filePath)>>], res)
       ELSE IF redir.type = "stdout" /\ redir.target # ""
       THEN redirectLoop([st EXCEPT !.fs = write(res.stdout)],
                         [res EXCEPT !.stdout = ""], redirections, k + 1)
       ELSE IF redir.type = "stderr" /\ redir.target = "/dev/null"
       THEN redirectLoop(st, [res EXCEPT !.stderr = ""], redirections, k + 1)
       ELSE IF redir.type = "stderr" /\ redir.target # ""
       THEN redirectLoop([st EXCEPT !.fs = write(res.stderr)],
                         [res EXCEPT !.stderr = ""], redirections, k + 1)
       ELSE IF redir.type = "stderr-to-stdout"
       THEN redirectLoop(st, [res EXCEPT !.stdout = @ \o res.stderr, !.stderr = ""],
                         redirections, k + 1)
       ELSE redirectLoop(st, res, redirections, k + 1)

\* applyRedirections that passes over 2>&1
applyRedirections_withoutMerge(st, res, redirections) ==
  redirectLoop(st, res, SelectSeq(redirections, LAMBDA r : r.type # "stderr-to-stdout"), 1)

applyRedirections(st, res, redirections) == redirectLoop(st, res, redirections, 1)

(***************************************************************************)
(* The executor: exec, executeIfStatement, executePipeline and             *)
(* executeCommand call one another recursively, as in the source.  Each    *)
(* returns the interpreter state it leaves and its ExecResult.  An         *)
(* exception that nothing catches is st.thrown: <<>> while there is none,  *)
(* else the message; every caller then returns at once, as an await that   *)
(* rejects does.                                                           *)
(***************************************************************************)
Throws(out) == out.st.thrown # <<>>

\* the entry executeCommand adds to the log when it returns: what ran, on
\* which stdin, with which result, and the environment before and after
Entry(kind, command, args, stdin, res, envBefore, envAfter, locals) ==
  [command |-> command, args |-> args, stdin |-> stdin, res |-> res, kind |-> kind,
   envBefore |-> envBefore, envAfter |-> envAfter, locals |-> locals]

Logged(out, kind, command, args, stdin, envBefore, locals) ==
  IF Throws(out) THEN out
  ELSE [out EXCEPT !.st.trace =
          Append(@, Entry(kind, command, args, stdin, out.res, envBefore, out.st.env,
                          locals))]

\* bindPositional that numbers the arguments from 0
RECURSIVE bindPositional_fromZero(_, _, _)
bindPositional_fromZero(env, args, k) ==
  IF k > Len(args) THEN env
  ELSE bindPositional_fromZero(Put(env, IntToStr(k - 1), args[k]), args, k + 1)

\* positional parameters bound on a function call
RECURSIVE bindPositional(_, _, _)
bindPositional(env, args, k) ==
  IF k > Len(args) THEN env
  ELSE bindPositional(Put(env, IntToStr(k), args[k]), args, k + 1)

\* positional parameters removed when the call returns
RECURSIVE unbindPositional(_, _, _)
unbindPositional(env, n, k) ==
  IF k > n THEN env ELSE unbindPositional(Delete(env, IntToStr(k)), n, k + 1)

\* the environment after the variables a popped frame saved are restored
restoreScope(env, localScope) ==
  LET deleted == {n \in DOMAIN localScope : localScope[n] = <<>>}
      restored == DOMAIN localScope \ deleted
  IN [n \in (DOMAIN env \cup restored) \ deleted |->
        IF n \in restored THEN localScope[n][1] ELSE env[n]]

\* expandedCommand.split('/').pop() || expandedCommand
commandNameOf(expandedCommand) ==
  LET slash == LastIndexOf(expandedCommand, "/", Len(expandedCommand))
      last == Rest(expandedCommand, slash + 1)
  IN IF slash = 0 \/ last = "" THEN expandedCommand ELSE last

RECURSIVE exec(_, _)
RECURSIVE executeIfStatement(_, _)
RECURSIVE branchLoop(_, _, _)
RECURSIVE executePipeline(_, _, _)
RECURSIVE pipelineLoop(_, _, _, _)
RECURSIVE executeCommand(_, _, _)
RECURSIVE callFunction(_, _, _, _)
RECURSIVE pipelineNext(_, _, _, _, _, _)
RECURSIVE branchTaken(_, _, _)
RECURSIVE execLoop(_, _, _)

\* the interpreter state in which the body of a function runs: a new scope
\* frame, and the positional parameters bound
enterFunction(st, expandedArgs) ==
  [st EXCEPT
     !.localScopes = Append(@, EmptyMap),
     !.env = Put(Put(bindPositional(@, expandedArgs, 1), "@", Join(expandedArgs, " ")),
                 "#", IntToStr(Len(expandedArgs)))]

\* what a function call leaves once its body has returned: the frame
\* popped, the variables it saved restored and the positional parameters
\* removed; locals names the variables the frame had saved
leaveFunction(body, expandedArgs) ==
  LET top == Len(body.st.localScopes)
      localScope == body.st.localScopes[top]
      restored == restoreScope(body.st.env, localScope)
      cleaned == Delete(Delete(unbindPositional(restored, Len(expandedArgs), 1), "@"), "#")
  IN IF Throws(body) THEN [st |-> body.st, res |-> body.res, locals |-> {}]
     ELSE [st |-> [body.st EXCEPT !.localScopes = SubSeq(@, 1, top - 1), !.env = cleaned],
           res |-> body.res,
           locals |-> DOMAIN localScope]

\* the function-call branch of executeCommand
callFunction(st, funcBody, expandedCommand, expandedArgs) ==
  leaveFunction(exec(enterFunction(st, expandedArgs), funcBody), expandedArgs)

\* the entry of a function call
LoggedCall(call, command, args, stdin, envBefore) ==
  Logged(Outcome(call.st, call.res), "function", command, args, stdin, envBefore,
         call.locals)

\* commandNotFound that returns exit code 1
commandNotFound_exitsOne(expandedCommand) ==
  Result("", "bash: " \o expandedCommand \o ": command not found\n", 1)

\* the result for a command word that names nothing
commandNotFound(expandedCommand) ==
  Result("", "bash: " \o expandedCommand \o ": command not found\n", 127)

executeCommand(st, cmd, stdin) ==
  IF cmd.command = "" THEN Outcome(st, Success)
  ELSE IF StartsWith(cmd.command, "if ") \/ StartsWith(cmd.command, "if;")
  THEN Logged(executeIfStatement(st, cmd.command),
              "if", cmd.command, cmd.args, stdin, st.env, {})
  ELSE
    LET expandedCommand == expandVariables(cmd.command, st.env)
        varExpandedArgs == [k \in 1..Len(cmd.args) |->
                              IF cmd.quotedArgs[k] THEN cmd.args[k]
                              ELSE expandVariables(cmd.args[k], st.env)]
        expandedArgs == expandArgs(varExpandedArgs, cmd.quotedArgs)
        log(out, kind) ==
          Logged(out, kind, expandedCommand, expandedArgs, stdin, st.env, {})
        eqIndex == IndexOf(expandedCommand, "=", 1)
        varName == Slice(expandedCommand, 1, eqIndex - 1)
        funcBody == Lookup(st.functions, expandedCommand, "")
        commandName == commandNameOf(expandedCommand)
    IN IF expandedCommand = "cd" THEN log(handleCd(st, expandedArgs), "builtin")
       ELSE IF expandedCommand = "export" THEN log(handleExport(st, expandedArgs), "builtin")
       ELSE IF expandedCommand = "unset" THEN log(handleUnset(st, expandedArgs), "builtin")
       ELSE IF expandedCommand = "exit" THEN log(handleExit(st, expandedArgs), "builtin")
       ELSE IF expandedCommand = "local" THEN log(handleLocal(st, expandedArgs), "builtin")
       ELSE IF expandedArgs = <<>> /\ eqIndex # 0 /\ IsIdentifier(varName)
       THEN log(Outcome([st EXCEPT !.env = Put(@, varName, Rest(expandedCommand, eqIndex + 1))],
                        Success),
                "assignment")
       ELSE IF funcBody # ""
       THEN LoggedCall(callFunction(st, funcBody, expandedCommand, expandedArgs),
                       expandedCommand, expandedArgs, stdin, st.env)
       ELSE IF commandName \notin RegistryNames
       THEN log(Outcome(st, commandNotFound(expandedCommand)), "notfound")
       ELSE
         LET ctx == [fs |-> st.fs, cwd |-> st.cwd, env |-> st.env, stdin |-> stdin]
             result == registryExecute(commandName, expandedArgs, ctx)
         IN log(applyRedirections(st, result, cmd.redirections), "registry")

\* shouldSkip without the test of "&&"
shouldSkip_noAndTest(operator, lastResult) ==
  operator = "||" /\ lastResult.exitCode = 0

\* the two skip tests at the head of the loop of executePipeline
shouldSkip(operator, lastResult) ==
  \/ operator = "&&" /\ lastResult.exitCode # 0
  \/ operator = "||" /\ lastResult.exitCode = 0

\* the step over a command that is not run: continue
skipCommand_recordsSuccess(ls) == [ls EXCEPT !.i = @ + 1, !.lastResult = Success]

skipCommand(ls) == [ls EXCEPT !.i = @ + 1]

\* afterCommand that appends every stdout to the output, piped or not
afterCommand_keepsPipedStdout(ls, result, isPipedOutput, isLast) ==
  [i |-> ls.i + 1,
   stdin |-> IF isPipedOutput /\ ~isLast THEN result.stdout ELSE ls.stdin,
   accumulatedStdout |-> ls.accumulatedStdout \o result.stdout,
   accumulatedStderr |-> ls.accumulatedStderr \o result.stderr,
   lastResult |-> result]

\* the loop state of executePipeline after command i returned result: its
\* stdout goes to the next command's stdin when piped, else to the output
afterCommand(ls, result, isPipedOutput, isLast) ==
  [i |-> ls.i + 1,
   stdin |-> IF isPipedOutput /\ ~isLast THEN result.stdout ELSE ls.stdin,
   accumulatedStdout |-> IF isPipedOutput /\ ~isLast THEN ls.accumulatedStdout
                         ELSE ls.accumulatedStdout \o result.stdout,
   accumulatedStderr |-> ls.accumulatedStderr \o result.stderr,
   lastResult |-> result]

\* the value executePipeline returns when its loop has ended
pipelineResult(ls) ==
  Result(ls.accumulatedStdout, ls.accumulatedStderr, ls.lastResult.exitCode)

\* const commandStdin = isPipedInput && i > 0 ? stdin : initialStdin
commandStdinOf(operator, i, stdin, initialStdin) ==
  IF operator = "" /\ i > 1 THEN stdin ELSE initialStdin

\* the rest of the loop of executePipeline once command i has returned out
pipelineNext(out, commands, initialStdin, ls, isPipedOutput, isLast) ==
  IF Throws(out) THEN Outcome(out.st, out.res)
  ELSE pipelineLoop(out.st, commands, initialStdin,
                    afterCommand(ls, out.res, isPipedOutput, isLast))

\* the loop of executePipeline; ls holds i, stdin, lastResult and the
\* accumulated stdout and stderr
pipelineLoop(st, commands, initialStdin, ls) ==
  IF ls.i > Len(commands) THEN Outcome(st, pipelineResult(ls))
  ELSE
    LET i == ls.i
        operator == commands[i].operator
        nextOperator == IF i + 1 <= Len(commands) THEN commands[i + 1].operator ELSE ""
    IN IF shouldSkip(operator, ls.lastResult)
       THEN pipelineLoop(st, commands, initialStdin, skipCommand(ls))
       ELSE pipelineNext(
              executeCommand(st, commands[i],
                             commandStdinOf(operator, i, ls.stdin, initialStdin)),
              commands, initialStdin, ls, nextOperator = "", i = Len(commands))

executePipeline(st, pipeline, initialStdin) ==
  pipelineLoop(st, pipeline, initialStdin,
    [i |-> 1, stdin |-> initialStdin, lastResult |-> Success,
     accumulatedStdout |-> "", accumulatedStderr |-> ""])

\* branchTaken that runs the body whatever the condition returned
branchTaken_ignoresExitCode(condResult, branches, k) ==
  exec(condResult.st, branches[k].body)

\* a branch whose condition returned condResult: its body runs when the
\* exit code is 0, else the next branch is tried
branchTaken(condResult, branches, k) ==
  IF Throws(condResult) THEN condResult
  ELSE IF condResult.res.exitCode = 0
  THEN exec(condResult.st, branches[k].body)
  ELSE branchLoop(condResult.st, branches, k + 1)

\* the loop of executeIfStatement over parsed.branches
branchLoop(st, branches, k) ==
  IF k > Len(branches) THEN Outcome(st, Success)
  ELSE IF branches[k].isNull THEN exec(st, branches[k].body)
  ELSE branchTaken(exec(st, branches[k].condition), branches, k)

executeIfStatement(st, input) ==
  LET parsed == parseIfStatement(input)
  IN IF parsed.error # "" THEN Outcome(st, Result("", parsed.error, 2))
     ELSE branchLoop(st, parsed.branches, 1)

\* the loop of exec over the pipelines: out is what the previous one left
execLoop(out, pipelines, k) ==
  IF k > Len(pipelines) \/ Throws(out) THEN out
  ELSE execLoop(executePipeline(out.st, pipelines[k], out.res.stdout), pipelines, k + 1)

exec(st, commandLine) ==
  LET trimmed == Trim(commandLine)
      funcDef == parseFunctionDefinition(trimmed)
  IN IF trimmed = "" THEN Outcome(st, Success)
     ELSE IF StartsWith(trimmed, "if ") \/ StartsWith(trimmed, "if;") \/ trimmed = "if"
     THEN executeIfStatement(st, trimmed)
     ELSE IF funcDef # <<>>
     THEN Outcome([st EXCEPT !.functions = Put(@, funcDef[1].name, funcDef[1].body)], Success)
     ELSE execLoop(Outcome(st, Success), parse(commandLine, st.env), 1)

(***************************************************************************)
(* The engine instance and its host.  env, functions, cwd, previousDir,    *)
(* localScopes and fs are the fields of BashEnv.  The host submits one     *)
(* line to exec, reads the result and submits the next: pc is "idle"       *)
(* between calls, "returned" while the result of the last call is held and *)
(* "rejected" while the exception it ended with is.                        *)
(* input describes the line submitted, line is its text, result its        *)
(* ExecResult, trace the commands it executed and before the fields of     *)
(* the instance when it was submitted.                                     *)
(***************************************************************************)
VARIABLES env, functions, cwd, previousDir, localScopes, fs,
          pc, input, line, result, trace, before

fields == <<env, functions, cwd, previousDir, localScopes, fs>>
vars == <<env, functions, cwd, previousDir, localScopes, fs,
          pc, input, line, result, trace, before>>

Fields == [env |-> env, functions |-> functions, cwd |-> cwd,
           previousDir |-> previousDir, localScopes |-> localScopes, fs |-> fs]

\* an interpreter state that keeps the file system only: the environment,
\* the functions and the directories are those of a new instance
Instance_keepsFilesOnly ==
  [env |-> [n \in {"HOME", "PATH"} |-> IF n = "HOME" THEN "/home/user" ELSE "/bin:/usr/bin"],
   functions |-> EmptyMap, cwd |-> "/home/user", previousDir |-> "/home/user",
   localScopes |-> <<>>, fs |-> fs, thrown |-> <<>>, trace |-> <<>>]

\* the interpreter state exec starts from: the fields and an empty log
Instance == [env |-> env, functions |-> functions, cwd |-> cwd,
             previousDir |-> previousDir, localScopes |-> localScopes, fs |-> fs,
             thrown |-> <<>>, trace |-> <<>>]

NoInput == [kind |-> "none"]

\* the env option of the constructor: absent, or one variable
EnvOptions == {EmptyMap, [n \in {"x"} |-> "outer"]}

\* new BashEnv({env}): the default layout
Construct(envOption) ==
  /\ env = [n \in {"HOME", "PATH"} \cup DOMAIN envOption |->
              IF n \in DOMAIN envOption THEN envOption[n]
              ELSE IF n = "HOME" THEN "/home/user" ELSE "/bin:/usr/bin"]
  /\ functions = EmptyMap
  /\ cwd = "/home/user"
  /\ previousDir = "/home/user"
  /\ localScopes = <<>>
  /\ fs = [dirs |-> {"/", "/home", "/home/user", "/bin", "/usr", "/usr/bin", "/tmp"},
           files |-> [f \in {"/bin/" \o c : c \in RegistryNames} |->
                        "#!/bin/bash\n# Built-in command: " \o Rest(f, 6) \o "\n"]]

Init ==
  /\ \E envOption \in EnvOptions : Construct(envOption)
  /\ pc = "idle"
  /\ input = NoInput
  /\ line = ""
  /\ result = Success
  /\ trace = <<>>
  /\ before = Fields

\* the call has returned out: the fields it left, its result and its log
Returned(out, in, text) ==
  /\ env' = out.st.env
  /\ functions' = out.st.functions
  /\ cwd' = out.st.cwd
  /\ previousDir' = out.st.previousDir
  /\ localScopes' = out.st.localScopes
  /\ fs' = out.st.fs
  /\ result' = out.res
  /\ trace' = out.st.trace
  /\ pc' = IF Throws(out) THEN "rejected" ELSE "returned"
  /\ input' = in
  /\ line' = text
  /\ before' = Fields

\* await exec(text), submitted as the input in
Run(in, text) ==
  /\ pc = "idle"
  /\ Returned(exec(Instance, text), in, text)

\* the host has read the result
Consume ==
  /\ pc \in {"returned", "rejected"}
  /\ pc' = "idle"
  /\ input' = NoInput
  /\ line' = ""
  /\ result' = Success
  /\ trace' = <<>>
  /\ before' = Fields
  /\ UNCHANGED fields

(***************************************************************************)
(* Lines of simple commands joined by operators.  A pair joins a first     *)
(* command, which prints, fails or assigns, to a second one that prints,   *)
(* exports, changes directory or writes a file.                            *)
(***************************************************************************)
Operators == {"&&", "||", ";"}

PairFirst == {"echo a", "nope", "false", "x=a"}
PairSecond == {"echo b", "export y=b", "cd /tmp", "echo b > /tmp/out"}

ExecPair ==
  \E a \in PairFirst, op \in Operators, b \in PairSecond :
    Run([kind |-> "pair", a |-> a, op |-> op, b |-> b], a \o " " \o op \o " " \o b)

\* the longest chain submitted
MaxChain == 3

PositionNames == <<"a", "b", "c", "d", "e">>

\* the command at position i of a chain: one that succeeds and prints, or one
\* that fails, with exit code 127 at odd positions and 1 at even ones
ChainCommand(i, ok) ==
  IF ok THEN "echo " \o PositionNames[i]
  ELSE IF i % 2 = 1 THEN "n" \o PositionNames[i]
  ELSE "false " \o PositionNames[i]

ChainCode(i, ok) == IF ok THEN 0 ELSE IF i % 2 = 1 THEN 127 ELSE 1

RECURSIVE RenderChain(_, _, _)
RenderChain(oks, ops, i) ==
  IF i > Len(oks) THEN ""
  ELSE (IF i = 1 THEN "" ELSE " " \o ops[i - 1] \o " ")
       \o ChainCommand(i, oks[i]) \o RenderChain(oks, ops, i + 1)

ExecChain ==
  \E n \in 1..MaxChain :
    \E oks \in [1..n -> BOOLEAN], ops \in [1..(n - 1) -> Operators] :
      Run([kind |-> "chain", oks |-> oks, ops |-> ops], RenderChain(oks, ops, 1))

\* the longest pipe submitted
MaxStages == 3

PipeFirst == {"echo a", "nope", "echo a > /tmp/out", "cat /bin/true /missing"}
PipeNext == {"cat", "nopb", "echo b", "cat /missing 2>&1"}

ExecPipe ==
  \E n \in 2..MaxStages :
    \E first \in PipeFirst, rest \in [1..(n - 1) -> PipeNext] :
      Run([kind |-> "pipe", stages |-> <<first>> \o rest],
          Join(<<first>> \o rest, " | "))

NextOps == ExecPair \/ ExecChain \/ ExecPipe \/ Consume

SpecOps == Init /\ [][NextOps]_vars

(***************************************************************************)
(* Properties of the operators.                                            *)
(***************************************************************************)
\* the first word of a command
HeadWord(text) ==
  LET sp == IndexOf(text, " ", 1)
  IN IF sp = 0 THEN text ELSE Slice(text, 1, sp - 1)

\* the interpreter state exec started from for the line whose result is held
InstanceBefore == [env |-> before.env, functions |-> before.functions,
                   cwd |-> before.cwd, previousDir |-> before.previousDir,
                   localScopes |-> before.localScopes, fs |-> before.fs,
                   thrown |-> <<>>, trace |-> <<>>]

\* the fields of an interpreter state
FieldsOf(st) == [env |-> st.env, functions |-> st.functions, cwd |-> st.cwd,
                 previousDir |-> st.previousDir, localScopes |-> st.localScopes,
                 fs |-> st.fs]

\* C1: in "A && B" the second command is executed iff the first one's exit
\* code is 0, in "A || B" iff it is not 0, in "A ; B" always; a second command
\* that is not executed adds no output and changes neither the environment,
\* nor the working directory, nor the file system: the line then leaves
\* what the first command alone leaves.
C1_SecondRunsByExitCode ==
  (pc = "returned" /\ input.kind = "pair") =>
    LET alone == exec(InstanceBefore, input.a)
        codeA == alone.res.exitCode
        ranB == Len(trace) = 2 /\ trace[2].command = HeadWord(input.b)
    IN /\ Len(trace) \in {1, 2}
       /\ trace[1].command = HeadWord(input.a)
       /\ trace[1].res = alone.res
       /\ input.op = "&&" => (ranB <=> codeA = 0)
       /\ input.op = "||" => (ranB <=> codeA # 0)
       /\ input.op = ";" => ranB
       /\ ~ranB => /\ Len(trace) = 1
                   /\ result = alone.res
                   /\ Fields = FieldsOf(alone.st)

\* a second command skipped after a first one that changed the environment,
\* and one executed that changed the file system
C1_Witness ==
  /\ pc = "returned" /\ input.kind = "pair"
  /\ input.a = "x=a" /\ input.op = "||" /\ input.b = "echo b > /tmp/out"
  /\ Len(trace) = 1
  /\ Has(env, "x") /\ ~Has(before.env, "x")
  /\ Has(fs.files, "/tmp/out")

\* what a log entry ran: the command word and its arguments
EntryText(e) == Join(<<e.command>> \o e.args, " ")

\* which positions of a chain run, by the rule of the operators applied to
\* the exit code of the last command that ran
RECURSIVE ChainRuns(_, _, _, _)
ChainRuns(oks, ops, i, last) ==
  IF i > Len(oks) THEN <<>>
  ELSE IF i = 1 \/ ops[i - 1] = ";" \/ (ops[i - 1] = "&&" /\ last = 0)
                \/ (ops[i - 1] = "||" /\ last # 0)
  THEN <<TRUE>> \o ChainRuns(oks, ops, i + 1, ChainCode(i, oks[i]))
  ELSE <<FALSE>> \o ChainRuns(oks, ops, i + 1, last)

\* the positions that run, in order
RanPositions(runs) == SelectSeq([i \in 1..Len(runs) |-> i], LAMBDA i : runs[i])

ChainAsExpected(ran) ==
  /\ Len(trace) = Len(ran)
  /\ \A j \in 1..Len(ran) :
       /\ EntryText(trace[j]) = ChainCommand(ran[j], input.oks[ran[j]])
       /\ trace[j].res.exitCode = ChainCode(ran[j], input.oks[ran[j]])
  /\ result.exitCode = ChainCode(ran[Len(ran)], input.oks[ran[Len(ran)]])

\* C2: in a chain joined by any mix of &&, || and ;, each decision uses the
\* exit code of the most recent command that was executed, and the exit code
\* returned is that of the last command executed; a skipped command never
\* updates it.
C2_ChainUsesLastExecuted ==
  (pc = "returned" /\ input.kind = "chain") =>
    ChainAsExpected(RanPositions(ChainRuns(input.oks, input.ops, 1, 0)))

\* "na && echo b || echo c": the second command is skipped and the third
\* one is decided by the exit code of the first
C2_Witness ==
  /\ pc = "returned" /\ input.kind = "chain"
  /\ input.oks = <<FALSE, TRUE, TRUE>> /\ input.ops = <<"&&", "||">>
  /\ Len(trace) = 2 /\ trace[2].command = "echo" /\ trace[2].args = <<"c">>
  /\ result.exitCode = 0 /\ result.stderr # ""

\* C3: in a pipe every stage runs; each stage after the first reads exactly
\* the stdout its predecessor returned after its redirections; the stdout
\* returned is that of the last stage alone and the stderr returned is the
\* stderr of the stages in order.
C3_PipeFeedsNextStage ==
  (pc = "returned" /\ input.kind = "pipe") =>
    LET n == Len(input.stages)
    IN /\ Len(trace) = n
       /\ \A i \in 1..n : trace[i].command = HeadWord(input.stages[i])
       /\ trace[1].stdin = ""
       /\ \A i \in 2..n : trace[i].stdin = trace[i - 1].res.stdout
       /\ \A i \in 1..n :
            /\ input.stages[i] = "echo a" => trace[i].res.stdout = "a\n"
            /\ input.stages[i] = "echo a > /tmp/out" =>
                 trace[i].res.stdout = "" /\ Lookup(fs.files, "/tmp/out", "") = "a\n"
            /\ input.stages[i] = "cat" => trace[i].res.stdout = trace[i].stdin
       /\ result.stdout = trace[n].res.stdout
       /\ result.stderr = Join([i \in 1..n |-> trace[i].res.stderr], "")
       /\ result.exitCode = trace[n].res.exitCode

\* a first stage with stdout and stderr, read by two more stages
C3_Witness ==
  /\ pc = "returned" /\ input.kind = "pipe"
  /\ input.stages = <<"cat /bin/true /missing", "cat", "cat">>
  /\ result.stdout = before.fs.files["/bin/true"]
  /\ result.stderr = "cat: /missing: No such file or directory\n"
  /\ result.exitCode = 0

(***************************************************************************)
(* Lines about functions.  The host defines f and g, each in one exec      *)
(* call, calls them with up to MaxArgs arguments, changes the environment  *)
(* and the working directory between calls, and reads them back.           *)
(***************************************************************************)
\* the most arguments a call passes
MaxArgs == 2

ArgWords == {"a", "b"}

LocalBody == "local x=inner; echo $x"
RedeclareBody == "local x; x=set; local x=again; echo $x"
NestedLocalBody == "local x=mine; g p q; echo $x"
PositionalBody == "echo $# $@ $1 $2 $3"
NestedArgsBody == "echo $1; g $2 z"
DeepLocalBody == "local x=deep; echo $x"
AssignBody == "x=changed"

\* the bodies given to each function; only f calls g
BodiesOf(name) ==
  IF name = "f"
  THEN {LocalBody, RedeclareBody, NestedLocalBody, PositionalBody, NestedArgsBody}
  ELSE {DeepLocalBody, AssignBody, PositionalBody}

\* a body as parseFunctionDefinition stores it: the text between the braces
StoredBody(body) == body \o ";"

DefinitionLine(name, body, form) ==
  IF form = "paren" THEN name \o "() { " \o body \o "; }"
  ELSE "function " \o name \o " { " \o body \o "; }"

ExecDefine ==
  \E name \in {"f", "g"}, form \in {"paren", "keyword"} :
    \E body \in BodiesOf(name) :
      Run([name |-> name, body |-> body, kind |-> "define"],
          DefinitionLine(name, body, form))

ExecCall ==
  \E name \in {"f", "g"}, n \in 0..MaxArgs :
    \E args \in [1..n -> ArgWords] :
      Run([name |-> name, args |-> args, kind |-> "call"], Join(<<name>> \o args, " "))

StateLines == {"export x=new", "unset x", "x=assigned", "cd /tmp", "cd -"}

ExecState == \E text \in StateLines : Run([kind |-> "state"], text)

ProbeLines == {"echo $x", "pwd"}

ExecProbe == \E text \in ProbeLines : Run([kind |-> "probe"], text)

TopLevelLocalLines == {"local x=top", "local x"}

ExecTopLevelLocal == \E text \in TopLevelLocalLines : Run([kind |-> "local"], text)

GreetLine == "greet() { echo Hello $1; }; greet World"
ShadowLine == "export x=outer; f() { local x=inner; echo $x; }; f; echo $x"

ExecDefineAndCall ==
  \E text \in {GreetLine, ShadowLine} : Run([kind |-> "defcall"], text)

NextFn ==
  \/ ExecDefine
  \/ ExecCall
  \/ ExecState
  \/ ExecProbe
  \/ ExecTopLevelLocal
  \/ ExecDefineAndCall
  \/ Consume

SpecFn == Init /\ [][NextFn]_vars

(***************************************************************************)
(* Properties of successive calls and of functions.                        *)
(***************************************************************************)
\* the last command a call logged: the line's own command when it has one
LastEntry == trace[Len(trace)]

DeclaredName(arg) ==
  LET eqIndex == IndexOf(arg, "=", 1)
  IN IF eqIndex > 1 THEN Slice(arg, 1, eqIndex - 1) ELSE arg

\* the variables the text of a body declares with local
LocalNames(body) ==
  LET ps == parse(body, EmptyMap)
  IN UNION {UNION {IF ps[i][j].command = "local"
                   THEN {DeclaredName(ps[i][j].args[k]) : k \in 1..Len(ps[i][j].args)}
                   ELSE {} : j \in 1..Len(ps[i])} : i \in 1..Len(ps)}

\* C5: for every function call, top-level or nested, every variable the
\* body declares with local has after the call returned exactly the value
\* it had immediately before the call, and is absent if it was absent.
C5_LocalsRestored ==
  pc = "returned" =>
    \A j \in 1..Len(trace) :
      trace[j].kind = "function" =>
        \A v \in LocalNames(before.functions[trace[j].command]) :
          Saved(trace[j].envAfter, v) = Saved(trace[j].envBefore, v)

\* f declares x, calls g which declares its own x, and x was set before
C5_Witness ==
  /\ pc = "returned" /\ input.kind = "call" /\ input.name = "f"
  /\ Has(before.functions, "f") /\ before.functions["f"] = StoredBody(NestedLocalBody)
  /\ Has(before.functions, "g") /\ before.functions["g"] = StoredBody(DeepLocalBody)
  /\ result.stdout = "deep\nmine\n"
  /\ Has(before.env, "x") /\ before.env["x"] = "new" /\ env = before.env

\* C6: a function definition followed by ";" and further commands on the
\* same line defines the function and runs the commands with it available:
\* the greet line prints "Hello World" and the line that shadows x prints
\* "inner" then "outer".
C6_DefinitionThenCall ==
  (pc = "returned" /\ input.kind = "defcall") =>
    /\ line = GreetLine => result.stdout = "Hello World\n"
    /\ line = ShadowLine => result.stdout = "inner\nouter\n"

PositionalNames == {"1", "2", "3", "4", "5", "6", "7", "8", "9", "@", "#"}

\* the arguments of the echo of PositionalBody when the call received args
BoundAs(entry, args) ==
  /\ entry.command = "echo" /\ Len(entry.args) = 5
  /\ entry.args[1] = IntToStr(Len(args))
  /\ entry.args[2] = Join(args, " ")
  /\ \A k \in 1..Len(args) : k <= 3 => entry.args[2 + k] = args[k]

MaxBranches == 3

BodyKinds == {"print", "fail", "assign"}

CondCommand(i, ok) == (IF ok THEN "echo c" ELSE "false c") \o IntToStr(i)

BodyCommand(i, bodyKind) ==
  (IF bodyKind = "print" THEN "echo b" ELSE IF bodyKind = "fail" THEN "nb" ELSE "x=b")
    \o IntToStr(i)

BodyCode(bodyKind) == IF bodyKind = "fail" THEN 127 ELSE 0

RECURSIVE RenderBranches(_, _, _)
RenderBranches(oks, bodyKind, i) ==
  IF i > Len(oks) THEN ""
  ELSE (IF i = 1 THEN "if " ELSE "; elif ") \o CondCommand(i, oks[i]) \o "; then "
       \o BodyCommand(i, bodyKind) \o RenderBranches(oks, bodyKind, i + 1)

RenderIf(oks, hasElse, bodyKind) ==
  RenderBranches(oks, bodyKind, 1)
    \o (IF hasElse THEN "; else " \o BodyCommand(Len(oks) + 1, bodyKind) ELSE "")
    \o "; fi"

ExecIf ==
  \E n \in 1..MaxBranches :
    \E oks \in [1..n -> BOOLEAN], hasElse \in BOOLEAN, bodyKind \in BodyKinds :
      Run([kind |-> "if", oks |-> oks, bodyKind |-> bodyKind, hasElse |-> hasElse],
          RenderIf(oks, hasElse, bodyKind))

Truth(ok) == IF ok THEN "true" ELSE "false"

InnerForms == {"else", "elif", "deep"}

\* an inner statement: with an else, with an elif, or with a statement of
\* its own in its body
InnerIf(form, ok1, ok2) ==
  IF form = "else"
  THEN "if " \o Truth(ok1) \o "; then echo i1; else echo i2; fi"
  ELSE IF form = "elif"
  THEN "if " \o Truth(ok1) \o "; then echo i1; elif " \o Truth(ok2) \o "; then echo i2; fi"
  ELSE "if " \o Truth(ok1) \o "; then if " \o Truth(ok2) \o "; then echo i1; fi; fi"

OuterPositions == {"then", "elif", "else"}

OuterIf(pos, inner, o1, o2) ==
  "if " \o Truth(o1) \o "; then " \o (IF pos = "then" THEN inner ELSE "echo o1")
    \o "; elif " \o Truth(o2) \o "; then " \o (IF pos = "elif" THEN inner ELSE "echo o2")
    \o "; else " \o (IF pos = "else" THEN inner ELSE "echo o3") \o "; fi"

ExecNested ==
  \E form \in InnerForms, pos \in OuterPositions :
    \E ok1 \in BOOLEAN, ok2 \in BOOLEAN, o1 \in BOOLEAN, o2 \in BOOLEAN :
      Run([pos |-> pos, kind |-> "nested", form |-> form, ok1 |-> ok1, ok2 |-> ok2,
           o1 |-> o1, o2 |-> o2],
          OuterIf(pos, InnerIf(form, ok1, ok2), o1, o2))

NextIf == ExecIf \/ ExecNested \/ Consume

SpecIf == Init /\ [][NextIf]_vars

(***************************************************************************)
(* Properties of if statements.                                            *)
(***************************************************************************)
\* the first condition that succeeds, 0 when none does
FirstTrue(oks) ==
  IF \E i \in 1..Len(oks) : oks[i]
  THEN CHOOSE i \in 1..Len(oks) : oks[i] /\ \A j \in 1..(i - 1) : ~oks[j]
  ELSE 0

IfAsExpected(n, first, evaluated, taken) ==
  /\ Len(trace) = evaluated + (IF taken = 0 THEN 0 ELSE 1)
  /\ \A j \in 1..evaluated : EntryText(trace[j]) = CondCommand(j, input.oks[j])
  /\ taken # 0 =>
       /\ EntryText(trace[evaluated + 1]) = BodyCommand(taken, input.bodyKind)
       /\ result.exitCode = BodyCode(input.bodyKind)
  /\ taken = 0 => result = Success
  /\ env = IF taken # 0 /\ input.bodyKind = "assign"
           THEN Put(before.env, "x", "b" \o IntToStr(taken))
           ELSE before.env

\* C9: an if/elif/else statement runs its conditions in source order up to
\* the first that returns exit code 0, then runs exactly that branch's body
\* (the else body iff every condition failed) and nothing after it; its exit
\* code is that of the body; with no condition succeeding and no else the
\* result is exit code 0 with empty output.
C9_FirstTrueBranchRuns ==
  (pc = "returned" /\ input.kind = "if") =>
    LET n == Len(input.oks)
        first == FirstTrue(input.oks)
    IN IfAsExpected(n, first, IF first = 0 THEN n ELSE first,
                    IF first # 0 THEN first ELSE IF input.hasElse THEN n + 1 ELSE 0)

\* the second of three conditions succeeds, the third also would, and an
\* else follows: the body of the second assigns
C9_Witness ==
  /\ pc = "returned" /\ input.kind = "if"
  /\ input.oks = <<FALSE, TRUE, TRUE>> /\ input.hasElse /\ input.bodyKind = "assign"
  /\ Len(trace) = 3 /\ trace[2].command = "echo" /\ trace[3].command = "x=b2"
  /\ Has(before.env, "x") /\ before.env["x"] = "outer" /\ env["x"] = "b2"

\* what the inner statement prints when it runs
InnerOut(form, ok1, ok2) ==
  IF form = "else" THEN (IF ok1 THEN "i1\n" ELSE "i2\n")
  ELSE IF form = "elif" THEN (IF ok1 THEN "i1\n" ELSE IF ok2 THEN "i2\n" ELSE "")
  ELSE (IF ok1 /\ ok2 THEN "i1\n" ELSE "")

\* the body the outer statement selects by its own conditions
OuterSelects(o1, o2) == IF o1 THEN "then" ELSE IF o2 THEN "elif" ELSE "else"

OuterOut(selected) ==
  IF selected = "then" THEN "o1\n" ELSE IF selected = "elif" THEN "o2\n" ELSE "o3\n"

\* C10: nested if statements resolve independently: the outer statement
\* selects its branch by its own conditions, and an inner statement in the
\* selected body, with its own elif or else or a statement nested in it,
\* runs as a complete if statement with its own branch selection.
C10_NestedResolveIndependently ==
  (pc = "returned" /\ input.kind = "nested") =>
    result = Result(IF OuterSelects(input.o1, input.o2) = input.pos
                    THEN InnerOut(input.form, input.ok1, input.ok2)
                    ELSE OuterOut(OuterSelects(input.o1, input.o2)),
                    "", 0)

(***************************************************************************)
(* If statements that are malformed, and if statements whose conditions    *)
(* print.  A malformed statement lacks its closing fi, lacks the fi of a   *)
(* statement nested in it, lacks its then, or has a fi too many; its       *)
(* condition and its body are commands that would change the instance.     *)
(***************************************************************************)
MalformedForms == {"nofi", "innernofi", "nothen", "nothenelse", "extrafi"}

MalformedConds == {"true", "cd /tmp"}
MalformedBodies == {"x=set", "echo b > /tmp/b"}

RenderMalformed(form, cond, body) ==
  IF form = "nofi" THEN "if " \o cond \o "; then " \o body
  ELSE IF form = "innernofi"
  THEN "if " \o cond \o "; then if " \o cond \o "; then " \o body \o "; fi"
  ELSE IF form = "nothen" THEN "if " \o cond \o "; " \o body \o "; fi"
  ELSE IF form = "nothenelse"
  THEN "if " \o cond \o "; " \o body \o "; else " \o body \o "; fi"
  ELSE "if " \o cond \o "; then " \o body \o "; fi; fi"

ExecMalformedIf ==
  \E form \in MalformedForms, cond \in MalformedConds, body \in MalformedBodies :
    Run([body |-> body, kind |-> "malformed", form |-> form, cond |-> cond],
        RenderMalformed(form, cond, body))

\* conditions that print: on stdout and succeed, on stderr and fail, on both
\* and fail, or on neither
PrintingConds == {"echo c", "nope", "cat /bin/true /missing", "false"}
PrintingBodies == {"echo b", "nb", "x=b"}

ExecPrintingIf ==
  \E c1 \in PrintingConds, c2 \in PrintingConds, body \in PrintingBodies :
    Run([body |-> body, kind |-> "printing", c1 |-> c1, c2 |-> c2],
        "if " \o c1 \o "; then " \o body \o "; elif " \o c2 \o "; then " \o body
          \o "; else " \o body \o "; fi")

NextIfOut == ExecMalformedIf \/ ExecPrintingIf \/ Consume

SpecIfOut == Init /\ [][NextIfOut]_vars

(***************************************************************************)
(* Properties of malformed and of printing if statements.                  *)
(***************************************************************************)
\* C11: a malformed if statement (no closing fi, unbalanced fi, missing
\* then) returns exit code 2 with a syntax-error message on stderr, and none
\* of its conditions or bodies is executed: the environment, the working
\* directory, the functions and the file system are those of before.
C11_MalformedIfIsRejected ==
  (pc = "returned" /\ input.kind = "malformed") =>
    /\ result.exitCode = 2
    /\ result.stdout = ""
    /\ Contains(result.stderr, "syntax error")
    /\ trace = <<>>
    /\ Fields = before

RECURSIVE TraceStdout(_, _)
TraceStdout(log, k) ==
  IF k > Len(log) THEN "" ELSE log[k].res.stdout \o TraceStdout(log, k + 1)

RECURSIVE TraceStderr(_, _)
TraceStderr(log, k) ==
  IF k > Len(log) THEN "" ELSE log[k].res.stderr \o TraceStderr(log, k + 1)

\* C12: the result of an if statement contains the output of the conditions
\* that were evaluated: its stdout and its stderr are those of the evaluated
\* conditions, in order, followed by those of the executed body, and its
\* exit code is that of the body.
C12_ConditionOutputIsKept ==
  (pc = "returned" /\ input.kind = "printing") =>
    /\ result.stdout = TraceStdout(trace, 1)
    /\ result.stderr = TraceStderr(trace, 1)
    /\ result.exitCode = LastEntry.res.exitCode

(***************************************************************************)
(* Lines with variable references: in single quotes, unquoted, and to      *)
(* variables that are not set.  The variable x is absent, or set by the    *)
(* constructor or by an earlier line.                                      *)
(***************************************************************************)
AssignLines == {"x=new", "unset x"}

ExecAssign == \E text \in AssignLines : Run([kind |-> "assign"], text)

\* where the single-quoted word stands
QuotedPositions == {"command", "argument", "target", "ifbody", "iflater"}

\* what stands between the quotes
QuotedTexts == {"$x", "${x}", "a$x"}

RenderQuoted(pos, quotedText) ==
  LET word == "'" \o quotedText \o "'"
  IN IF pos = "command" THEN word
     ELSE IF pos = "argument" THEN "echo " \o word
     ELSE IF pos = "target" THEN "echo a > '/tmp/" \o quotedText \o "'"
     ELSE IF pos = "ifbody" THEN "if true; then echo " \o word \o "; fi"
     ELSE "true; if true; then echo " \o word \o "; fi"

ExecQuoted ==
  \E pos \in QuotedPositions, quotedText \in QuotedTexts :
    Run([pos |-> pos, kind |-> "quoted", quotedText |-> quotedText],
        RenderQuoted(pos, quotedText))

\* where the unquoted reference to x stands; "sameline" assigns x in the
\* command before the one that refers to it
UnquotedPositions == {"command", "argument", "adjacent", "target", "sameline"}

RenderUnquoted(pos) ==
  IF pos = "command" THEN "c=echo; $c hi"
  ELSE IF pos = "argument" THEN "echo [$x]"
  ELSE IF pos = "adjacent" THEN "echo 'q'$x"
  ELSE IF pos = "target" THEN "echo a > /tmp/t$x"
  ELSE "x=hello; echo $x"

ExecUnquoted ==
  \E pos \in UnquotedPositions :
    Run([pos |-> pos, kind |-> "unquoted"], RenderUnquoted(pos))

\* a reference to a variable, plain or in braces
ReferenceNames == {"x", "nn"}
ReferenceForms == {"plain", "braces"}

Reference(name, form) == IF form = "plain" THEN "$" \o name ELSE "${" \o name \o "}"

\* the reference stands unquoted, in double quotes, or unquoted after a
\* double-quoted one
ReferencePositions == {"unquoted", "double", "afterdouble"}

RenderReference(pos, ref) ==
  IF pos = "unquoted" THEN "echo [" \o ref \o "]"
  ELSE IF pos = "double" THEN "echo \"[" \o ref \o "]\""
  ELSE "echo \"" \o ref \o "\" [" \o ref \o "]"

ExecReference ==
  \E name \in ReferenceNames, pos \in ReferencePositions, form \in ReferenceForms :
    Run([name |-> name, pos |-> pos, kind |-> "reference", form |-> form],
        RenderReference(pos, Reference(name, form)))

NextQuote == ExecAssign \/ ExecQuoted \/ ExecUnquoted \/ ExecReference \/ Consume

SpecQuote == Init /\ [][NextQuote]_vars

(***************************************************************************)
(* Properties of quoting and of variable expansion.                        *)
(***************************************************************************)
\* the file at path holds content
FileHolds(files, path, content) == Has(files, path) /\ files[path] = content

\* C13: single-quoted text never undergoes variable expansion: a word
\* written in single quotes, as the command word, as an argument, as a
\* redirection target or in the body of an if statement, reaches the
\* command with the text between the quotes unchanged, every $ kept.
C13_SingleQuotedIsLiteral ==
  (pc = "returned" /\ input.kind = "quoted") =>
    IF input.pos = "command"
    THEN result = Result("", "bash: " \o input.quotedText \o ": command not found\n", 127)
    ELSE IF input.pos = "target"
    THEN /\ result = Success
         /\ FileHolds(fs.files, "/tmp/" \o input.quotedText, "a\n")
    ELSE result = Result(input.quotedText \o "\n", "", 0)

\* the value of x when the line was submitted, "" when x was not set
ValueBefore(name) == Lookup(before.env, name, "")

\* C14: every unquoted $VAR reference is replaced by the variable's value at
\* the moment the command containing it executes, wherever it stands: as the
\* command word, as an argument, as the unquoted part of a word next to a
\* quoted part, as a redirection target; so an assignment made by an earlier
\* command of the line is visible to the later ones.
C14_UnquotedIsExpanded ==
  (pc = "returned" /\ input.kind = "unquoted") =>
    IF input.pos = "command" THEN result = Result("hi\n", "", 0)
    ELSE IF input.pos = "argument"
    THEN result = Result("[" \o ValueBefore("x") \o "]\n", "", 0)
    ELSE IF input.pos = "adjacent"
    THEN result = Result("q" \o ValueBefore("x") \o "\n", "", 0)
    ELSE IF input.pos = "target"
    THEN /\ result = Success
         /\ FileHolds(fs.files, "/tmp/t" \o ValueBefore("x"), "a\n")
    ELSE result = Result("hello\n", "", 0)

\* C15: a reference to a variable that is not set expands to the empty
\* string: for a name that was never assigned or exported, or was unset, $N
\* and ${N} expand to "" in unquoted and in double-quoted positions.  (A word
\* that is empty after expansion may be kept or dropped.)
C15_UnsetExpandsToEmpty ==
  (pc = "returned" /\ input.kind = "reference" /\ ~Has(before.env, input.name)) =>
    /\ result.stdout \in
         (IF input.pos = "afterdouble" THEN {"[]\n", " []\n"} ELSE {"[]\n"})
    /\ result.stderr = ""
    /\ result.exitCode = 0

(***************************************************************************)
(* Lines with redirections: a registry command whose stdout is written or  *)
(* appended to a file, whose stderr is merged into its stdout, whose       *)
(* stdout is redirected twice, or whose stdin is redirected from a file.   *)
(***************************************************************************)
\* the longest content a file has when a line appends to it
MaxFileLen == 4

WriteCommands == {"echo x", "echo yy", "cat /missing", "pwd"}
WriteTargets == {"/tmp/f", "g"}

ExecWrite ==
  \E cmd \in WriteCommands, target \in WriteTargets, append \in BOOLEAN :
    /\ append => Len(Lookup(fs.files, fsResolvePath(cwd, target), "")) <= MaxFileLen
    /\ Run([target |-> target, append |-> append, kind |-> "write", cmd |-> cmd],
           cmd \o (IF append THEN " >> " ELSE " > ") \o target)

\* commands that write to stdout, to stderr, to both or to neither
MergeCommands == {"echo a", "cat /missing", "cat /bin/true /missing", "false"}

ExecMerge ==
  \E cmd \in MergeCommands : Run([kind |-> "merge", cmd |-> cmd], cmd \o " 2>&1")

ExecDouble ==
  \E cmd \in WriteCommands :
    Run([kind |-> "double", cmd |-> cmd], cmd \o " > /tmp/a > /tmp/b")

ExecRead ==
  \E target \in WriteTargets :
    Run([target |-> target, kind |-> "read"], "cat < " \o target)

NextRedir == ExecWrite \/ ExecMerge \/ ExecDouble \/ ExecRead \/ Consume

SpecRedir == Init /\ [][NextRedir]_vars

(***************************************************************************)
(* Properties of redirections.                                             *)
(***************************************************************************)
\* the content of the file at path, "" when there is none
ContentOf(files, path) == Lookup(files, path, "")

\* raw is what the command returns without the redirection
WrittenAsExpected(raw) ==
  LET path == fsResolvePath(before.cwd, input.target)
  IN /\ Has(fs.files, path)
     /\ fs.files[path] =
          (IF input.append THEN ContentOf(before.fs.files, path) ELSE "") \o raw.stdout
     /\ \A other \in DOMAIN fs.files \ {path} : FileHolds(before.fs.files, other, fs.files[other])
     /\ result = [raw EXCEPT !.stdout = ""]

MergedAsExpected(raw) == result = Result(raw.stdout \o raw.stderr, "", raw.exitCode)

\* C17: 2>&1 on a registry command appends the command's stderr onto its
\* stdout and clears stderr: the returned stdout is the command's stdout
\* followed by its stderr, the returned stderr is empty, and the exit code is
\* that of the command.
C17_StderrMergedIntoStdout ==
  (pc = "returned" /\ input.kind = "merge") =>
    MergedAsExpected(exec(InstanceBefore, input.cmd).res)

\* cat prints a file and reports a missing one
C17_Witness ==
  /\ pc = "returned" /\ input.kind = "merge" /\ line = "cat /bin/true /missing 2>&1"
  /\ result.stdout = fs.files["/bin/true"] \o "cat: /missing: No such file or directory\n"
  /\ result.stderr = "" /\ result.exitCode = 1

\* C18: several redirections on one command are applied in the order
\* written, and a later redirection of the same stream overrides the
\* destination of the earlier one, whose write is still executed: after
\* "cmd > a > b" both files are written and the stdout of cmd is in b.
C18_LaterRedirectionReceivesStdout ==
  (pc = "returned" /\ input.kind = "double") =>
    /\ Has(fs.files, "/tmp/a")
    /\ FileHolds(fs.files, "/tmp/b", exec(InstanceBefore, input.cmd).res.stdout)

\* C19: < is a supported redirection: "cmd < file" is executed with the
\* content of the file as its stdin.
C19_InputRedirection ==
  (/\ pc = "returned" /\ input.kind = "read"
   /\ Has(before.fs.files, fsResolvePath(before.cwd, input.target))) =>
    /\ trace[1].stdin = before.fs.files[fsResolvePath(before.cwd, input.target)]
    /\ result = Result(before.fs.files[fsResolvePath(before.cwd, input.target)], "", 0)

(***************************************************************************)
(* Lines that start with a command word that names nothing: alone, with    *)
(* an argument, with a path or with a redirection, and followed through    *)
(* an operator by a command that prints, exports, changes directory or     *)
(* writes a file.                                                          *)
(***************************************************************************)
UnknownCommands == {"nope", "nope arg", "/usr/bin/nope", "nope > /tmp/n"}

FollowingOperators == {"", "&&", "||", ";", "|"}

ExecUnknown ==
  \E unknown \in UnknownCommands, op \in FollowingOperators, b \in PairSecond :
    Run([kind |-> "unknown", op |-> op, b |-> b, unknown |-> unknown],
        IF op = "" THEN unknown ELSE unknown \o " " \o op \o " " \o b)

NextUnknown == ExecUnknown \/ ExecState \/ Consume

SpecUnknown == Init /\ [][NextUnknown]_vars

(***************************************************************************)
(* Properties of unknown commands.                                         *)
(***************************************************************************)
\* what the unknown command is to return
UnknownResult ==
  Result("", "bash: " \o HeadWord(input.unknown) \o ": command not found\n", 127)

\* rest is what the command after the operator leaves when it runs alone
\* from the state the line started in
UnknownAsExpected(rest) ==
  /\ trace # <<>>
  /\ trace[1].kind = "notfound"
  /\ trace[1].res = UnknownResult
  /\ trace[1].envAfter = before.env
  /\ IF input.op \in {"", "&&"}
     THEN Len(trace) = 1 /\ Fields = before /\ result = UnknownResult
     ELSE /\ Len(trace) = 2
          /\ Fields = FieldsOf(rest.st)
          /\ result = Result(rest.res.stdout, UnknownResult.stderr \o rest.res.stderr,
                             rest.res.exitCode)

\* C20: a command word that resolves to no builtin, assignment, function or
\* registered command returns exit code 127, empty stdout and a stderr
\* message that holds the command name and "command not found"; it changes
\* no state of the engine, and the remaining commands of the line are
\* evaluated under the operator rules: after && the next is skipped, after
\* ||, ; and | it runs as it would alone.
C20_CommandNotFound ==
  (pc = "returned" /\ input.kind = "unknown") =>
    UnknownAsExpected(exec(InstanceBefore, input.b))

\* an unknown command with a redirection, then || and a cd: no file is
\* written and the directory changes
C20_Witness ==
  /\ pc = "returned" /\ input.kind = "unknown"
  /\ line = "nope > /tmp/n || cd /tmp"
  /\ ~Has(fs.files, "/tmp/n") /\ before.cwd = "/home/user" /\ cwd = "/tmp"
  /\ Len(trace) = 2 /\ trace[1].res.exitCode = 127 /\ result.exitCode = 0

(***************************************************************************)
(* Lines on which an operation of the file system fails: a command reads   *)
(* a file that is missing or a directory, cd goes to a missing directory   *)
(* or to a file, a redirection writes or appends to a directory, alone or  *)
(* in the body of the function w.                                          *)
(***************************************************************************)
\* the most frames that calls ended by an exception leave on localScopes
MaxLeftFrames == 2

SetupLines == {"w() { cat /bin/true > /tmp; }", "cd /tmp", "cd -", "export x=new"}

ExecSetup == \E text \in SetupLines : Run([kind |-> "setup"], text)

FailingLines ==
  {"cat /missing", "cat /tmp", "cd /missing", "cd /bin/true", "pwd > /tmp",
   "pwd >> /tmp", "cat /missing 2> /tmp", "w a"}

ExecFailing ==
  \E text \in FailingLines :
    /\ Len(localScopes) < MaxLeftFrames
    /\ Run([kind |-> "failing"], text)

NextFail == ExecSetup \/ ExecFailing \/ Consume

SpecFail == Init /\ [][NextFail]_vars

(***************************************************************************)
(* Properties of failures of the file system.                              *)
(***************************************************************************)
\* C21: no failure of the file system escapes exec as an exception:
\* whichever operation fails, during the execution of a command, during a
\* redirection write or append, or during cd, exec resolves to a result
\* with an exit code other than 0 and a message on stderr.
C21_FailuresBecomeResults ==
  (pc # "idle" /\ input.kind = "failing") =>
    /\ pc = "returned"
    /\ result.exitCode # 0
    /\ result.stderr # ""

(***************************************************************************)
(* A function whose body calls the function itself.  The call cannot be    *)
(* taken in one step, since it does not return: pc is "running" while      *)
(* exec is in the call, and each step is one pass through the function     *)
(* branch of executeCommand, from the lookup of the body to the exec of    *)
(* the body, which parses it and dispatches its command, the same call.    *)
(***************************************************************************)
\* the depth up to which the calls are followed
MaxRecursion == 102

\* the default of the maximum call depth the documentation states
MaxCallDepth == 100

RecursiveBodies == {"r", "r again"}

ExecDefineRecursive ==
  \E body \in RecursiveBodies :
    Run([name |-> "r", body |-> body, kind |-> "define"], DefinitionLine("r", body, "paren"))

\* the only command of the body of the function name is a call of name
CallsItself(name) ==
  /\ Has(functions, name)
  /\ LET pipelines == parse(functions[name], env)
     IN /\ Len(pipelines) = 1
        /\ Len(pipelines[1]) >= 1
        /\ pipelines[1][1].command = name

\* the arguments of the call in the body of name
SelfArgs(name) == parse(functions[name], env)[1][1].args

\* the instance once the function branch has pushed the frame and bound the
\* positional parameters
Entered(expandedArgs) ==
  LET st == enterFunction(Instance, expandedArgs)
  IN /\ env' = st.env
     /\ localScopes' = st.localScopes
     /\ UNCHANGED <<functions, cwd, previousDir, fs>>

\* await exec("r"): the call of r enters its body
BeginCall ==
  /\ pc = "idle"
  /\ CallsItself("r")
  /\ Entered(<<>>)
  /\ pc' = "running"
  /\ input' = [kind |-> "recursive"]
  /\ line' = "r"
  /\ before' = Fields
  /\ UNCHANGED <<result, trace>>

\* the body calls r
Recurse ==
  /\ pc = "running"
  /\ CallsItself("r")
  /\ Len(localScopes) < MaxRecursion
  /\ Entered(SelfArgs("r"))
  /\ UNCHANGED <<pc, input, line, result, trace, before>>

NextRecursion == ExecDefineRecursive \/ BeginCall \/ Recurse \/ Consume

SpecRecursion == Init /\ [][NextRecursion]_vars

(***************************************************************************)
(* Properties of recursion.                                                *)
(***************************************************************************)
\* C22: function recursion is bounded: a call of a function whose body
\* calls itself is aborted once the call depth exceeds the configured
\* maximum (100 by default), so the depth of the calls in progress, which
\* is the number of frames on localScopes, never passes the maximum by more
\* than the call that is aborted.
C22_RecursionIsBounded ==
  Len(localScopes) <= MaxCallDepth + 1

(***************************************************************************)
(* Loops: for, while and until lines, submitted between lines that change  *)
(* the state.                                                              *)
(***************************************************************************)
LoopKeywords == {"for", "while", "until", "forever"}

LoopWords == {<<"a">>, <<"a", "b">>, <<"b", "a", "b">>}

\* the loop line of a keyword: a for loop over the words, a while or until
\* loop whose body is never entered, a while loop that never ends by itself
RenderLoop(keyword, words) ==
  CASE keyword = "for" -> "for i in " \o Join(words, " ") \o "; do echo $i; done"
    [] keyword = "while" -> "while false; do echo " \o Join(words, " ") \o "; done"
    [] keyword = "until" -> "until true; do echo " \o Join(words, " ") \o "; done"
    [] OTHER -> "while true; do echo " \o Join(words, " ") \o "; done"

ExecLoop ==
  \E keyword \in LoopKeywords, words \in LoopWords :
    Run([kind |-> "loop", keyword |-> keyword, words |-> words], RenderLoop(keyword, words))

NextLoop == ExecLoop \/ ExecState \/ Consume

SpecLoop == Init /\ [][NextLoop]_vars

(***************************************************************************)
(* Properties of loops.                                                    *)
(***************************************************************************)
\* what the body of a for loop prints, run once for each word
RECURSIVE EachOnALine(_)
EachOnALine(words) ==
  IF words = <<>> THEN "" ELSE Head(words) \o "\n" \o EachOnALine(Tail(words))

\* C23: a for loop runs its body once for each word, a while loop whose
\* condition fails and an until loop whose condition succeeds run it no
\* time and exit with 0, and a loop that never ends by itself is aborted
\* with a non-zero exit code and a message naming the limit of 10000
\* iterations.
C23_LoopsRunTheirBody ==
  (pc = "returned" /\ input.kind = "loop") =>
    CASE input.keyword = "for" -> result = Result(EachOnALine(input.words), "", 0)
      [] input.keyword \in {"while", "until"} -> result = Success
      [] OTHER -> result.exitCode # 0 /\ Contains(result.stderr, "10000")

(***************************************************************************)
(* Isolation of calls.                                                     *)
(***************************************************************************)
\* C24: each exec call is isolated: it starts from the working directory,
\* the environment and the empty function table of a new instance, whatever
\* the earlier calls on the instance exported, assigned, defined or changed
\* directory to; only the files persist.
C24_CallsAreIsolated ==
  pc = "returned" =>
    /\ before.cwd = "/home/user"
    /\ before.functions = EmptyMap
    /\ line = "pwd" => result.stdout = "/home/user\n"
    /\ line = "echo $x" => result.stdout \in {"\n", "outer\n"}
    /\ input.kind = "call" => LastEntry.kind = "notfound"

(***************************************************************************)
(* Command resolution: functions named like registry commands and like     *)
(* builtins are defined, and lines are run whose command word is such a    *)
(* name, a path or a name that nothing defines.                            *)
(***************************************************************************)
BuiltinNames == {"cd", "export", "unset", "exit", "local"}

ShadowNames == {"echo", "cat", "cd", "export"}

ShadowBodies == {"", "true", "pwd"}

ExecDefineNamed ==
  \E name \in ShadowNames, body \in ShadowBodies :
    Run([name |-> name, body |-> body, kind |-> "shadow"], name \o "() { " \o body \o " }")

\* the arguments given to each command word
ResolveArgs ==
  [n \in {"echo", "cat", "cd", "export", "/bin/echo", "nope"} |->
     CASE n = "cat" -> "/missing"
       [] n = "cd" -> "/tmp"
       [] n = "export" -> "x=new"
       [] OTHER -> "hello"]

ExecResolve ==
  \E name \in DOMAIN ResolveArgs :
    Run([name |-> name, kind |-> "resolve"], name \o " " \o ResolveArgs[name])

NextChain == ExecDefineNamed \/ ExecResolve \/ Consume

SpecChain == Init /\ [][NextChain]_vars

(***************************************************************************)
(* Properties of command resolution.                                       *)
(***************************************************************************)
\* C25: a command word is resolved by a fixed chain: a state-mutating
\* builtin runs whatever function has its name; else a function of that
\* name runs, on every call after its definition, and the result is its
\* body's; else the registry command of the word's last path component
\* runs; else the command is not found.
C25_ResolutionIsAPriorityChain ==
  (pc = "returned" /\ input.kind = "resolve") =>
    IF input.name \in BuiltinNames THEN LastEntry.kind = "builtin" /\ result = Success
    ELSE IF Has(before.functions, input.name)
    THEN /\ LastEntry.kind = "function"
         /\ result = Result(IF before.functions[input.name] = "pwd"
                            THEN before.cwd \o "\n" ELSE "", "", 0)
    ELSE IF commandNameOf(input.name) \in RegistryNames THEN LastEntry.kind = "registry"
    ELSE LastEntry.kind = "notfound"

(***************************************************************************)
(* The parser on lines of odd structure: lines that begin with operators   *)
(* or hold operators in a row.                                             *)
(***************************************************************************)
LeadingOperators == {"", ";", "&&", "||", "|", ";;", "&& ||"}

FirstCommands == {"pwd", "false", "nope"}

RestOfLine == {"", ";;; echo b", " && || echo b"}

ExecLeading ==
  \E op \in LeadingOperators, first \in FirstCommands, rest \in RestOfLine :
    Run([rest |-> rest, kind |-> "leading", op |-> op, first |-> first],
        op \o " " \o first \o rest)


(***************************************************************************)
(* Properties of the parser.                                               *)
(***************************************************************************)
\* the pipelines the parser returned for the line of the call
Parsed == parse(line, before.env)

\* C26: in every pipeline the parser returns, the first command has the
\* operator '', also on a line that begins with ;, && or || or holds such
\* tokens in a row; so the first command of the line is run.
C26_FirstCommandHasNoOperator ==
  (pc = "returned" /\ input.kind = "leading") =>
    /\ \A p \in 1..Len(Parsed) : Parsed[p][1].operator = ""
    /\ trace # <<>> /\ trace[1].command = input.first

(***************************************************************************)
(* Lines of quoted and unquoted words: a word is its text and the quote    *)
(* around it ("" for none).                                                *)
(***************************************************************************)
MaxWords == 2

FlaggedWords == {<<"", "\"">>, <<"", "'">>, <<"$x", "\"">>, <<"$x", "">>,
                 <<"a", "'">>, <<"a", "">>}

RenderWords(words) == Join([k \in 1..Len(words) |-> words[k][2] \o words[k][1] \o words[k][2]], " ")

ExecFlagged ==
  \E n \in 1..MaxWords :
    \E words \in [1..n -> FlaggedWords] :
      Run([kind |-> "flags", words |-> words], "echo " \o RenderWords(words))

\* the text of the token of a word: a reference in double quotes is
\* expanded when the line is tokenized
TokenText(word, e) ==
  IF word[2] = "\"" /\ word[1] = "$x" THEN Lookup(e, "x", "") ELSE word[1]

\* the quoted flags of the tokens of the words: a word with no text gives no
\* token, any other word a token that is quoted iff the word is
RECURSIVE FlagsOf(_, _)
FlagsOf(words, e) ==
  IF words = <<>> THEN <<>>
  ELSE (IF TokenText(Head(words), e) = "" THEN <<>> ELSE <<Head(words)[2] # "">>)
       \o FlagsOf(Tail(words), e)

\* the tokens of the line of the call
Tokens == tokenize(line, before.env)

\* C27: the quoted flag of every word token is set iff a quoted segment
\* contributed to that token: a quoted word before it, an empty one that
\* gives no token included, does not mark a later unquoted word as quoted.
C27_QuotedFlagIsPerToken ==
  (pc = "returned" /\ input.kind = "flags") =>
    [k \in 1..Len(Tokens) |-> Tokens[k].quoted] = <<FALSE>> \o FlagsOf(input.words, before.env)

(***************************************************************************)
(* Lines the parser cannot close: a quote or a brace that is not           *)
(* terminated, an if statement without its fi, an if that ends the line.   *)
(***************************************************************************)
\* a line with a construct that is not terminated, and what it prints
UnterminatedLines == {<<"echo \"a;b", "a;b\n">>, <<"echo 'a | b", "a | b\n">>,
                      <<"echo \"${x", "${x\n">>, <<"echo ${x", "${x\n">>}

OpenIfLines == {"if", "echo a; if", "true; if; fi", "if true; then echo b",
                "echo a; if true; then echo b", "true; if true; then if",
                "echo a; if true; then echo b; fi", "echo a; if true; then echo b; fi; pwd"}

ExecOdd ==
  \E text \in {u[1] : u \in UnterminatedLines} \cup OpenIfLines :
    Run([kind |-> "odd"], text)

NextParse == ExecLeading \/ ExecFlagged \/ ExecOdd \/ ExecAssign \/ Consume

SpecParse == Init /\ [][NextParse]_vars

\* every step of the loop of tokenize moves its index forward
RECURSIVE TokenizeAdvances(_, _, _)
TokenizeAdvances(text, e, ts) ==
  \/ ts.i > Len(text)
  \/ LET next == tokenizeStep(text, e, ts)
     IN next.i > ts.i /\ TokenizeAdvances(text, e, next)

\* the step of buildPipelines that collects an if that is the last token
CollectsLastIf(tokens, bs) ==
  /\ bs.i = Len(tokens)
  /\ tokens[bs.i].type = "word" /\ tokens[bs.i].value = "if"
  /\ bs.currentArgs = <<>>

\* every step of the loop of buildPipelines moves its index forward; when
\* lastIfStays, the step that collects an if that is the last token may
\* leave the index in place, having added a word to the command
RECURSIVE BuildAdvances(_, _, _)
BuildAdvances(tokens, bs, lastIfStays) ==
  \/ bs.i > Len(tokens)
  \/ LET next == buildStep(tokens, bs)
     IN /\ \/ next.i > bs.i
           \/ /\ lastIfStays /\ CollectsLastIf(tokens, bs)
              /\ next.i = bs.i /\ next.currentArgs # <<>>
        /\ BuildAdvances(tokens, next, lastIfStays)

\* every step of the loop of parseIfStatement moves its index forward or
\* leaves the loop
RECURSIVE ParseIfAdvances(_, _)
ParseIfAdvances(rest, ps) ==
  \/ ~(ps.pos <= Len(rest) /\ ps.depth > 0 /\ ~ps.stop)
  \/ LET next == parseIfStep(rest, ps)
     IN (next.pos > ps.pos \/ next.stop) /\ ParseIfAdvances(rest, next)

\* the if statements of the call: the line, and the commands the parser
\* collected
IfTexts ==
  {t \in {Trim(line)} \cup
          UNION {{Parsed[p][k].command : k \in 1..Len(Parsed[p])} : p \in 1..Len(Parsed)} :
     StartsWith(t, "if ") \/ StartsWith(t, "if;")}

\* the call has parsed its line: no loop of the parser has thrown, every
\* step has moved its index forward, and a construct that is not terminated
\* is text
ParsingFinishes(lastIfStays) ==
  /\ pc = "returned"
  /\ TokenizeAdvances(line, before.env,
       [i |-> 1, current |-> "", inQuote |-> "", wasQuoted |-> FALSE, tokens |-> <<>>])
  /\ BuildAdvances(Tokens,
       [i |-> 1, commands |-> <<>>, currentArgs |-> <<>>,
        currentRedirections |-> <<>>, lastOperator |-> ""], lastIfStays)
  /\ \A t \in IfTexts :
       ParseIfAdvances(Trim(Rest(t, 3)),
         [pos |-> 1, depth |-> 1, state |-> "condition", stop |-> FALSE,
          currentCondition |-> "", currentBody |-> "", branches |-> <<>>])
  /\ \A u \in UnterminatedLines : line = u[1] => result = Result(u[2], "", 0)

\* C28 as stated: parsing is total and terminates: on every line tokenize,
\* buildPipelines and parseIfStatement finish without throwing, the index of
\* each loop strictly advancing in every step, and quotes and braces that
\* are not terminated are literal text.
C28_IndexStrictlyAdvances ==
  (pc \in {"returned", "rejected"} /\ input.kind = "odd") => ParsingFinishes(FALSE)

\* C28 amended: parsing is total and terminates: on every line tokenize,
\* buildPipelines and parseIfStatement finish without throwing; the index
\* strictly advances in every step of tokenize and parseIfStatement, and in
\* every step of buildPipelines but the one that collects an if that is the
\* last token, which leaves the index in place and adds a word, so that
\* the next step advances; quotes and braces that are not terminated are
\* literal text.
C28_ParsingTerminates ==
  (pc \in {"returned", "rejected"} /\ input.kind = "odd") => ParsingFinishes(TRUE)

\* a line that ends with if has been parsed and run: its last command is
\* the word if, which nothing defines
C28_Witness ==
  /\ pc = "returned" /\ input.kind = "odd" /\ line = "echo a; if"
  /\ CollectsLastIf(Tokens, [i |-> Len(Tokens), currentArgs |-> <<>>])
  /\ result = Result("a\n", "bash: if: command not found\n", 127)

(***************************************************************************)
(* Values and if statements that pass through the parser: a variable is    *)
(* given a value with characters of the shell syntax, and lines refer to   *)
(* it inside double quotes.                                                *)
(***************************************************************************)
SyntaxValues == {"plain", "a; pwd", "a | cat", "a > /tmp/p", "$x", "a && false"}

ExecSetValue ==
  \E value \in SyntaxValues :
    Run([value |-> value, kind |-> "setvalue"], "export v='" \o value \o "'")

\* where the double-quoted reference stands: the command word, an argument,
\* an argument in the body of an if statement that starts the line or that
\* follows another command
DoubleQuotedPositions == {"command", "argument", "ifstart", "iflater"}

RenderDoubleQuoted(pos) ==
  CASE pos = "command" -> "\"$v\""
    [] pos = "argument" -> "echo \"$v\""
    [] pos = "ifstart" -> "if true; then echo \"$v\"; fi"
    [] OTHER -> "true; if true; then echo \"$v\"; fi"

ExecDoubleQuoted ==
  \E pos \in DoubleQuotedPositions :
    Run([pos |-> pos, kind |-> "doublequoted"], RenderDoubleQuoted(pos))


(***************************************************************************)
(* Properties of values in double quotes.                                  *)
(***************************************************************************)
\* the commands a call ran, in order, each with its arguments; the entry of
\* an if statement stands for no command of its own
NotIf(entry) == entry.kind # "if"

CommandsRun ==
  LET ran == SelectSeq(trace, NotIf)
  IN [k \in 1..Len(ran) |-> <<ran[k].command, ran[k].args>>]

\* the commands the line of a position runs when the value is data
CommandsOf(pos, value) ==
  CASE pos = "command" -> <<<<value, <<>>>>>>
    [] pos = "argument" -> <<<<"echo", <<value>>>>>>
    [] pos = "ifstart" -> <<<<"true", <<>>>>, <<"echo", <<value>>>>>>
    [] OTHER -> <<<<"true", <<>>>>, <<"true", <<>>>>, <<"echo", <<value>>>>>>

\* C29: the value of a variable expanded inside double quotes is never
\* interpreted as shell syntax: whatever the value holds (;, |, &&, >, a
\* reference), the line runs the commands it runs for a plain value, in the
\* same order, and the value reaches its command as one word, unchanged.
C29_DoubleQuotedValueIsData ==
  (pc = "returned" /\ input.kind = "doublequoted" /\ Has(before.env, "v")) =>
    CommandsRun = CommandsOf(input.pos, before.env["v"])

(***************************************************************************)
(* If statements that follow another command on their line, so that the    *)
(* parser collects them and executeCommand interprets the collected text.  *)
(***************************************************************************)
IfTextsLater == {"if true; then echo during; fi",
                 "if false; then echo a; else echo b; fi",
                 "if cat /missing; then echo a; fi",
                 "if true; then x=set; fi",
                 "if true; then echo a > /tmp/f; fi",
                 "if true; then echo '$x'; fi",
                 "if true; then echo 'a;b'; fi",
                 "if true; then echo \"a  b\"; fi"}

ExecIfLater ==
  \E text \in IfTextsLater :
    Run([text |-> text, kind |-> "iflater"], "true; " \o text)

NextReparse ==
  ExecSetValue \/ ExecDoubleQuoted \/ ExecIfLater \/ ExecAssign \/ Consume

SpecReparse == Init /\ [][NextReparse]_vars

(***************************************************************************)
(* Properties of collected if statements.                                  *)
(***************************************************************************)
\* C30: an if statement reached through the parser, after another command
\* of its line, behaves as the same statement submitted as a line of its
\* own: the same stdout, stderr and exit code, and the same state left.
C30_IfThroughParserIsTheSame ==
  (pc = "returned" /\ input.kind = "iflater") =>
    LET own == exec(InstanceBefore, input.text)
    IN result = own.res /\ Fields = FieldsOf(own.st)

(***************************************************************************)
(* The stack of local scopes between calls.                                *)
(***************************************************************************)
\* C31: the stack of local scopes is balanced: once a top-level exec call
\* has finished, with any exit code or with a failure of the file system
\* inside a function body, the stack is empty, so that a top-level local
\* submitted next fails with exit code 1.
C31_ScopeStackIsBalanced ==
  pc \in {"idle", "returned", "rejected"} =>
    /\ localScopes = <<>>
    /\ handleLocal(Instance, <<"x=1">>).res.exitCode = 1

(***************************************************************************)
(* Nested calls: the function outer calls the function inner, with fewer,  *)
(* as many or more arguments than it was called with itself, and then      *)
(* prints its own positional parameters.                                   *)
(***************************************************************************)
InnerBody == "echo in:$#:$1:$2:"

InnerArgs == {<<>>, <<"p">>, <<"p", "q", "r">>}

OuterBody(innerArgs) == Join(<<"inner">> \o innerArgs, " ") \o "; echo out:$#:$@:$1:$2:"

ExecDefineInner == Run([name |-> "inner", kind |-> "define"], DefinitionLine("inner", InnerBody, "paren"))

ExecDefineOuter ==
  \E innerArgs \in InnerArgs :
    Run([name |-> "outer", kind |-> "define"],
        DefinitionLine("outer", OuterBody(innerArgs), "paren"))

ExecCallOuter ==
  \E n \in 0..MaxArgs :
    \E args \in [1..n -> ArgWords] :
      /\ Has(functions, "inner") /\ Has(functions, "outer")
      /\ Run([args |-> args, kind |-> "outer"], Join(<<"outer">> \o args, " "))

\* one command of each kind the command word can resolve to, with one
\* redirection written on it
RedirectedCommands == {"echo out", "cat /missing", "nope", "cd /missing", "inner p"}

Redirections == {"2>/dev/null", "> /tmp/o"}

ExecRedirected ==
  \E x \in RedirectedCommands, redir \in Redirections :
    /\ Has(functions, "inner")
    /\ Run([redir |-> redir, kind |-> "redirected", x |-> x], x \o " " \o redir)

NextNest ==
  ExecDefineInner \/ ExecDefineOuter \/ ExecCallOuter \/ ExecRedirected
    \/ ExecState \/ Consume

SpecNest == Init /\ [][NextNest]_vars

(***************************************************************************)
(* Properties of nested calls.                                             *)
(***************************************************************************)
\* argument k of a call, empty when the call has fewer
ArgOrEmpty(args, k) == IF k <= Len(args) THEN args[k] ELSE ""

\* what a function prints whose body echoes tag:$#:$1:$2: on a call with args
PrintedBy(tag, args, all) ==
  tag \o ":" \o IntToStr(Len(args)) \o ":" \o (IF all THEN Join(args, " ") \o ":" ELSE "")
      \o ArgOrEmpty(args, 1) \o ":" \o ArgOrEmpty(args, 2) \o ":\n"

\* C32: a nested call leaves the positional parameters of its caller
\* intact: while inner runs, $#, $1 and $2 are those of inner's own
\* arguments, empty beyond their count; after inner has returned, $#, $@,
\* $1 and $2 in the rest of outer's body are those of outer's arguments.
C32_CallerPositionalsIntact ==
  (pc = "returned" /\ input.kind = "outer") =>
    \A innerArgs \in InnerArgs :
      before.functions["outer"] = StoredBody(OuterBody(innerArgs)) =>
        result.stdout = PrintedBy("in", innerArgs, FALSE) \o PrintedBy("out", input.args, TRUE)

(***************************************************************************)
(* Lines that mix pipes with && , || and ; : A | B op C | D, where B       *)
(* succeeds or fails, so that C is run or skipped.                         *)
(***************************************************************************)
MixedSecond == {"cat", "false", "nopb"}

MixedThird == {"echo c", "nopc"}

ExecMixed ==
  \E b \in MixedSecond, op \in Operators, c \in MixedThird :
    Run([c |-> c, kind |-> "mixed", op |-> op, b |-> b],
        "echo a | " \o b \o " " \o op \o " " \o c \o " | cat")

(***************************************************************************)
(* if statements whose condition or body holds a word with the letters of  *)
(* a keyword inside it, or a quoted string with a keyword in it.           *)
(***************************************************************************)
KeywordWords == {"plain", "fix", "wifi", "motif x", "heathen",
                 "'a fi b'", "'or else what'", "\"a then b\"", "'if only'"}

KeywordPlaces == {"condition", "body"}

KeywordIf(place, word) ==
  IF place = "condition"
  THEN "if echo " \o word \o "; then echo b; fi"
  ELSE "if true; then echo " \o word \o "; fi"

ExecKeyword ==
  \E place \in KeywordPlaces, word \in KeywordWords :
    Run([kind |-> "keyword", word |-> word, place |-> place],
        KeywordIf(place, word))

(***************************************************************************)
(* Lines that start with an if statement and go on after its fi.           *)
(***************************************************************************)
IfConditions == {"true", "false"}

IfBodies == {"echo during", "false"}

AfterFi == {"echo after", "false"}

IfThenMore(cond, body, op, more) ==
  "if " \o cond \o "; then " \o body \o "; fi"
    \o (IF op = ";" THEN "; " ELSE " " \o op \o " ") \o more

ExecIfThenMore ==
  \E cond \in IfConditions, body \in IfBodies, op \in Operators, more \in AfterFi :
    Run([body |-> body, kind |-> "ifmore", op |-> op, cond |-> cond, more |-> more],
        IfThenMore(cond, body, op, more))

(***************************************************************************)
(* Lines with exit followed by further commands.                           *)
(***************************************************************************)
ExitCodes == {"", "0", "3"}

ExitThenMore(code, op, more) ==
  "exit" \o (IF code = "" THEN "" ELSE " " \o code)
    \o (IF op = ";" THEN "; " ELSE " " \o op \o " ") \o more

ExecExit ==
  \E code \in ExitCodes, op \in Operators, more \in AfterFi :
    Run([code |-> code, kind |-> "exit", op |-> op, more |-> more],
        ExitThenMore(code, op, more))

(***************************************************************************)
(* cd to a directory, to a missing path, to a file, to - and to ~ : alone, *)
(* followed by cd - , and cd - twice.                                      *)
(***************************************************************************)
CdTargets == {"/tmp", "/bin", "/usr/bin", "/missing", "/bin/true", "-", "~"}

CdForms == {"single", "back", "twice"}

CdLine(form, target) ==
  IF form = "single" THEN "cd " \o target
  ELSE IF form = "back" THEN "cd " \o target \o "; cd -"
  ELSE "cd -; cd -"

ExecCd ==
  \E form \in CdForms, target \in CdTargets :
    /\ form = "twice" => target = "-"
    /\ Run([target |-> target, kind |-> "cd", form |-> form], CdLine(form, target))

NextMix ==
  ExecMixed \/ ExecKeyword \/ ExecIfThenMore \/ ExecExit \/ ExecCd
    \/ ExecState \/ Consume

SpecMix == Init /\ [][NextMix]_vars

(***************************************************************************)
(* Properties of mixed lines.                                              *)
(***************************************************************************)
\* the command word of a command line
CommandWord(text) ==
  LET blank == IndexOf(text, " ", 1)
  IN IF blank = 0 THEN text ELSE Slice(text, 1, blank - 1)

\* C33: a piped command reads only the stdout of the command written
\* immediately before it: on A | B op C | D, D reads what C printed, and
\* when C was skipped D does not read the stdout that A left in the pipe.
C33_PipeReadsItsOwnStage ==
  (pc = "returned" /\ input.kind = "mixed") =>
    \A k \in 3..Len(trace) :
      trace[k].command = "cat" =>
        /\ trace[k - 1].command = CommandWord(input.c)
        /\ trace[k].stdin = trace[k - 1].res.stdout


\* C34: the if scanner takes if, then, elif, else and fi as keywords only
\* when they are whole unquoted words: letters of a keyword inside another
\* word or inside a quoted string leave the depth and the state alone and
\* are copied unchanged into the current condition or body.
C34_KeywordsAreWholeWords ==
  (pc = "returned" /\ input.kind = "keyword") =>
    LET parsed == parseIfStatement(line)
    IN /\ parsed.error = ""
       /\ Len(parsed.branches) = 1
       /\ parsed.branches[1].condition =
            (IF input.place = "condition" THEN "echo " \o input.word ELSE "true")
       /\ parsed.branches[1].body =
            (IF input.place = "condition" THEN "echo b;"
             ELSE "echo " \o input.word \o ";")


\* C35: on a line that starts with if, the commands written after the
\* closing fi run after the statement under the operator rules, and their
\* output and exit code are part of the result of exec.
C35_CommandsAfterFiRun ==
  (pc = "returned" /\ input.kind = "ifmore") =>
    LET taken == input.cond = "true"
        ifOut == IF taken /\ input.body = "echo during" THEN "during\n" ELSE ""
        ifCode == IF taken /\ input.body = "false" THEN 1 ELSE 0
        runs == \/ input.op = ";"
                \/ input.op = "&&" /\ ifCode = 0
                \/ input.op = "||" /\ ifCode # 0
        moreOut == IF input.more = "echo after" THEN "after\n" ELSE ""
        moreCode == IF input.more = "false" THEN 1 ELSE 0
    IN result = IF runs THEN Result(ifOut \o moreOut, "", moreCode)
                ELSE Result(ifOut, "", ifCode)


\* C36: a redirection written on a command is applied to the command's
\* result whatever the command word resolves to: X 2>/dev/null returns X's
\* stdout and exit code with empty stderr and writes nowhere, and X > f
\* writes X's stdout to f and returns empty stdout.
C36_RedirectionAppliesToAnyCommand ==
  (pc = "returned" /\ input.kind = "redirected") =>
    LET plain == exec(InstanceBefore, input.x)
    IN IF input.redir = "2>/dev/null"
       THEN /\ result = Result(plain.res.stdout, "", plain.res.exitCode)
            /\ fs = plain.st.fs
       ELSE /\ result = Result("", plain.res.stderr, plain.res.exitCode)
            /\ FileHolds(fs.files, "/tmp/o", plain.res.stdout)


\* C37: exit N ends the execution of the line: exec returns exit code N (0
\* without N) and no command written after exit on the line is executed.
C37_ExitEndsTheLine ==
  (pc = "returned" /\ input.kind = "exit") =>
    /\ result = Result("", "", IF input.code = "3" THEN 3 ELSE 0)
    /\ LastEntry.command = "exit"


\* C38: a definition takes effect for the calls that follow it whatever its
\* body: after NAME() { }, or a redefinition of NAME with an empty body, a
\* call of NAME runs the empty body and returns exit code 0 with empty output;
\* it is neither a command-not-found nor the registry command of that name.
C38_EmptyBodyIsDefined ==
  (/\ pc = "returned" /\ input.kind = "resolve"
   /\ Has(before.functions, input.name)
   /\ before.functions[input.name] = "") =>
    /\ result = Success
    /\ LastEntry.kind \notin {"registry", "notfound"}


\* C39: cd keeps cwd and previousDir consistent: a cd to a path that does
\* not exist or is not a directory returns exit code 1 and changes neither;
\* a successful cd sets previousDir to the old cwd, so cd - after a
\* successful cd X restores the cwd in effect before it, and cd - twice
\* leaves cwd unchanged.
C39_CdIsConsistent ==
  (pc = "returned" /\ input.kind = "cd") =>
    /\ input.form = "single" =>
         /\ input.target \in {"/missing", "/bin/true"} => result.exitCode = 1
         /\ result.exitCode \in {0, 1}
         /\ result.exitCode = 1 =>
              /\ cwd = before.cwd /\ previousDir = before.previousDir
              /\ result.stdout = "" /\ result.stderr # ""
         /\ result.exitCode = 0 =>
              /\ previousDir = before.cwd
              /\ cwd \in fs.dirs
              /\ input.target \notin {"-", "~"} => cwd = input.target
              /\ input.target = "-" => cwd = before.previousDir
    /\ input.form = "back" =>
         /\ Len(trace) = 2
         /\ trace[1].res.exitCode = 0 =>
              /\ result.exitCode = 0
              /\ cwd = before.cwd
              /\ input.target \notin {"-", "~"} => previousDir = input.target
         /\ trace[1].res.exitCode # 0 => previousDir = before.cwd
    /\ input.form = "twice" =>
         /\ result.exitCode = 0
         /\ cwd = before.cwd /\ previousDir = before.previousDir

\* cd /tmp; cd - was run in /bin after a stay in /usr/bin: the shell is back
\* in /bin and cd - would now lead to /tmp
C39_Witness ==
  /\ pc = "returned" /\ input.kind = "cd" /\ input.form = "back"
  /\ input.target = "/tmp"
  /\ before.cwd = "/bin" /\ before.previousDir = "/usr/bin"
  /\ cwd = "/bin" /\ previousDir = "/tmp"

(***************************************************************************)
(* An instance on which files are written and cp and mv are run through    *)
(* the Command interface, with the instance's file system and cwd.         *)
(***************************************************************************)
MaxSources == 2

CopySources == {"/tmp/a", "b", "/missing", "/usr/bin"}

CopyDests == {"/tmp", "/home/user", "/tmp/z"}

MakeLines == {"echo a > /tmp/a", "echo b > b"}

ExecMake == \E text \in MakeLines : Run([kind |-> "make"], text)

\* the sequences of n different sources
SourceLists(n) ==
  {s \in [1..n -> CopySources] : \A i, j \in 1..n : s[i] = s[j] => i = j}

ExecCopy ==
  \E name \in {"cp", "mv"}, n \in 1..MaxSources, dest \in CopyDests :
    \E sources \in SourceLists(n) :
      LET args == sources \o <<dest>>
          ctx == [fs |-> fs, cwd |-> cwd, env |-> env, stdin |-> ""]
          out == IF name = "cp" THEN cpCommand(args, ctx) ELSE mvCommand(args, ctx)
      IN /\ pc = "idle"
         /\ Returned(Outcome([Instance EXCEPT !.fs = out.fs], out.res),
                     [name |-> name, sources |-> sources, dest |-> dest, kind |-> "copy"],
                     Join(<<name>> \o args, " "))

NextCopy == ExecMake \/ ExecCopy \/ Consume

SpecCopy == Init /\ [][NextCopy]_vars


(***************************************************************************)
(* Properties of cp and mv.                                                *)
(***************************************************************************)
\* source k of the call cannot be copied or moved: nothing is at its path,
\* or it is a directory given to cp without -r
SourceFails(k) ==
  LET srcPath == fsResolvePath(before.cwd, input.sources[k])
  IN \/ ~fsExists(before.fs, srcPath)
     \/ input.name = "cp" /\ fsIsDirectory(before.fs, srcPath)

\* the message of a source that cannot be copied or moved
SourceMessage(k) ==
  LET src == input.sources[k]
  IN IF ~fsExists(before.fs, fsResolvePath(before.cwd, src))
     THEN input.name \o ": cannot stat '" \o src \o "': No such file or directory\n"
     ELSE "cp: -r not specified; omitting directory '" \o src \o "'\n"

\* source k is at its place in the destination directory, with what it held
\* before the call, and mv has left nothing at the source
SourceArrived(k) ==
  LET srcPath == fsResolvePath(before.cwd, input.sources[k])
      destPath == fsResolvePath(before.cwd, input.dest)
      target == destPath \o "/" \o Basename(input.sources[k])
  IN IF fsIsDirectory(before.fs, srcPath)
     THEN target \in fs.dirs /\ srcPath \notin fs.dirs
     ELSE /\ FileHolds(fs.files, target, before.fs.files[srcPath])
          /\ (input.name = "mv" /\ target # srcPath) => ~Has(fs.files, srcPath)

\* C40: cp and mv with more than one source and a destination that is not
\* an existing directory fail with exit code 1 and a message "target ... is
\* not a directory" and copy or move nothing; with a directory destination
\* every source is processed on its own: a failing source sets exit code 1
\* and adds its message, and the other sources are copied or moved.
C40_SourcesAreIndependent ==
  (pc = "returned" /\ input.kind = "copy") =>
    LET n == Len(input.sources)
        destIsDir == fsIsDirectory(before.fs, fsResolvePath(before.cwd, input.dest))
    IN /\ (n > 1 /\ ~destIsDir) =>
            /\ result = Result("", input.name \o ": target '" \o input.dest
                                     \o "' is not a directory\n", 1)
            /\ fs = before.fs
       /\ destIsDir =>
            /\ result.stdout = ""
            /\ result.exitCode = (IF \E k \in 1..n : SourceFails(k) THEN 1 ELSE 0)
            /\ result.stderr =
                 Join([k \in 1..n |-> IF SourceFails(k) THEN SourceMessage(k) ELSE ""], "")
            /\ \A k \in 1..n : ~SourceFails(k) => SourceArrived(k)
            /\ (\A k \in 1..n : SourceFails(k)) => fs = before.fs

\* mv /missing b /tmp was run in a home directory holding b: the missing
\* source is reported and b has moved to /tmp all the same
C40_Witness ==
  /\ pc = "returned" /\ input.kind = "copy" /\ input.name = "mv"
  /\ input.sources = <<"/missing", "b">> /\ input.dest = "/tmp"
  /\ Has(before.fs.files, "/home/user/b")
  /\ result = Result("", "mv: cannot stat '/missing': No such file or directory\n", 1)
  /\ FileHolds(fs.files, "/tmp/b", "b\n") /\ ~Has(fs.files, "/home/user/b")

\* cp /tmp/a b /tmp/z was run with both sources present and no directory
\* /tmp/z: the call fails and nothing is copied
C40_WitnessNotADirectory ==
  /\ pc = "returned" /\ input.kind = "copy" /\ input.name = "cp"
  /\ input.sources = <<"/tmp/a", "b">> /\ input.dest = "/tmp/z"
  /\ Has(before.fs.files, "/tmp/a") /\ Has(before.fs.files, "/home/user/b")
  /\ ~fsExists(before.fs, "/tmp/z")
  /\ result.exitCode = 1 /\ fs = before.fs

====
